---- MODULE Spec2Model ----
(***************************************************************************)
(* A model of the influx-line codec: the escape engine, the name and value *)
(* decoders and formatters, the segment tokenizer, and the InfluxLine      *)
(* record with its builder, parser (FromStr) and formatter (Display).      *)
(*                                                                         *)
(* Texts are sequences of one-character strings.  Results of fallible      *)
(* functions are records [ok, err, val].  Numbers are kept as canonical    *)
(* decimal digit sequences, so that no width is lost.                      *)
(***************************************************************************)
EXTENDS Integers, Sequences, FiniteSets, TLC

VARIABLES
    line,       \* the InfluxLine under construction: a result [ok, err, val]
    origin,     \* how `line` was first obtained: "none", "new", "full", "from_str"
    input,      \* the text handed to InfluxLine::from_str (<<>> for builder lines)
    parts,      \* the raw segments `input` was assembled from
    tagLog,     \* the (key, value) pairs inserted into the tag set, in call order
    fieldLog,   \* the (key, value) pairs inserted into the field set, in call order
    other,      \* a second InfluxLine, from InfluxLine::full or InfluxLine::from_str
    out,        \* the text written by Display for `line`
    back,       \* the result of InfluxLine::from_str(out)
    nops,       \* number of builder calls made on `line`
    prev,       \* the value of `line` before the last builder call
    last,       \* the last operation performed
    phase       \* "start", "build", "shown", "done", "paired" or "newline"

vars == <<line, origin, input, parts, tagLog, fieldLog, other, out, back, nops, prev,
          last, phase>>

-----------------------------------------------------------------------------
(* Characters *)

SP == " "
COMMA == ","
EQ == "="
BS == "\\"
DQ == "\""
NL == "\n"
US == "_"

Digits == {"0", "1", "2", "3", "4", "5", "6", "7", "8", "9"}

(* Results *)

Ok(v) == [ok |-> TRUE, err |-> "", val |-> v]
Err(e) == [ok |-> FALSE, err |-> e, val |-> <<>>]

None == [some |-> FALSE, v |-> <<>>]
Some(x) == [some |-> TRUE, v |-> x]

(* Sequence helpers *)

Drop(s, n) == SubSeq(s, n + 1, Len(s))
Take(s, n) == SubSeq(s, 1, n)

\* F applied to the value of v, which is computed once.
Bind(v, F(_)) == CHOOSE r \in {F(x) : x \in {v}} : TRUE

-----------------------------------------------------------------------------
(* Escape engine: types/string/parser.rs *)

LinearParser_new(special_characters, escape_character, stray_escapes) ==
    [buffer |-> <<>>, state |-> "SeenCharacter",
     special_characters |-> special_characters,
     escape_character |-> escape_character,
     stray_escapes |-> stray_escapes]

character_type(p, character) ==
    IF character = p.escape_character THEN "Escape"
    ELSE IF character \in p.special_characters THEN "Special"
    ELSE "Normal"

\* An escape character followed by a character that is neither special nor
\* the escape character, under the Forbid policy of the quoted string.
stray_escape_forbidden(p, character) ==
    [p |-> [p EXCEPT !.state = "Error"], err |-> "StrayEscapeCharacter"]

\* An Allow policy that drops the backslash: the property of C17 does not
\* survive it.
stray_escape_dropped(p, character) ==
    [p |-> [p EXCEPT !.buffer = Append(@, character), !.state = "SeenCharacter"],
     err |-> ""]

\* The same under the Allow policy of the names: both characters are kept.
stray_escape_allowed(p, character) ==
    [p |-> [p EXCEPT !.buffer = Append(Append(@, p.escape_character), character),
                     !.state = "SeenCharacter"],
     err |-> ""]

process_char(p, character) ==
    LET t == character_type(p, character) IN
    CASE p.state = "SeenCharacter" /\ t = "Normal" ->
            [p |-> [p EXCEPT !.buffer = Append(@, character)], err |-> ""]
      [] p.state = "SeenCharacter" /\ t = "Special" ->
            [p |-> [p EXCEPT !.state = "Error"], err |-> "SpecialCharacterNotEscaped"]
      [] p.state = "SeenCharacter" /\ t = "Escape" ->
            [p |-> [p EXCEPT !.state = "SeenEscapeCharacter"], err |-> ""]
      [] p.state = "SeenEscapeCharacter" /\ t = "Normal" ->
            IF p.stray_escapes = "Forbid"
            THEN stray_escape_forbidden(p, character)
            ELSE stray_escape_allowed(p, character)
      [] p.state = "SeenEscapeCharacter" /\ t = "Special" ->
            [p |-> [p EXCEPT !.buffer = Append(@, character),
                             !.state = "SeenCharacter"], err |-> ""]
      [] p.state = "SeenEscapeCharacter" /\ t = "Escape" ->
            [p |-> [p EXCEPT !.buffer = Append(@, p.escape_character),
                             !.state = "SeenCharacter"], err |-> ""]
      [] OTHER ->
            [p |-> [p EXCEPT !.state = "Error"], err |-> "Failed"]

\* s.chars().try_for_each(|c| parser.process_char(c)): stops at the first error.
RECURSIVE try_for_each(_, _)
try_for_each(p, s) ==
    IF s = <<>> THEN [p |-> p, err |-> ""]
    ELSE Bind(process_char(p, Head(s)),
              LAMBDA r : IF r.err # "" THEN r ELSE try_for_each(r.p, Tail(s)))

extract(p) ==
    CASE p.state = "SeenCharacter" -> Ok(p.buffer)
      [] p.state = "SeenEscapeCharacter" -> Err("TrailingEscapeCharacter")
      [] OTHER -> Err("Failed")

\* The decoders' common body: feed every character, then extract.
decode(special_characters, escape_character, stray_escapes, s) ==
    Bind(try_for_each(
             LinearParser_new(special_characters, escape_character, stray_escapes), s),
         LAMBDA r : IF r.err # "" THEN Err(r.err) ELSE extract(r.p))

(* Inverse escaper: types/string/formatter.rs *)

\* An escaper that also escapes the escape character: the property of C20 does
\* not survive it.
RECURSIVE LinearFormatter_chars_and_escape(_, _, _)
LinearFormatter_chars_and_escape(special_characters, escape_character, original) ==
    IF original = <<>> THEN <<>>
    ELSE (IF Head(original) \in special_characters \cup {escape_character}
          THEN <<escape_character, Head(original)>>
          ELSE <<Head(original)>>)
         \o LinearFormatter_chars_and_escape(special_characters, escape_character,
                                             Tail(original))

RECURSIVE LinearFormatter_chars(_, _, _)
LinearFormatter_chars(special_characters, escape_character, original) ==
    IF original = <<>> THEN <<>>
    ELSE (IF Head(original) \in special_characters
          THEN <<escape_character, Head(original)>>
          ELSE <<Head(original)>>)
         \o LinearFormatter_chars(special_characters, escape_character, Tail(original))

-----------------------------------------------------------------------------
(* KeyName: types/string/key.rs *)

KeyName_SPECIAL_CHARACTERS == {COMMA, EQ, SP}
KeyName_ESCAPE_CHARACTER == BS

\* A constructor that forgets the reserved prefix: the property of C16 does not
\* survive it.
KeyName_new_unreserved(name) ==
    IF name = <<>> THEN Err("NameRestriction") ELSE Ok(name)

\* A constructor that takes the empty name: the property of C36 does not
\* survive it.
KeyName_new_empty(name) ==
    IF name # <<>> /\ Head(name) = US THEN Err("NameRestriction") ELSE Ok(name)

KeyName_new(name) ==
    IF name = <<>> \/ Head(name) = US THEN Err("NameRestriction") ELSE Ok(name)

KeyName_from_str(s) ==
    Bind(decode(KeyName_SPECIAL_CHARACTERS, KeyName_ESCAPE_CHARACTER, "Allow", s),
         LAMBDA r : IF r.ok THEN KeyName_new(r.val) ELSE r)

KeyName_fmt(name) ==
    LinearFormatter_chars(KeyName_SPECIAL_CHARACTERS, KeyName_ESCAPE_CHARACTER, name)

(* MeasurementName: types/string/measurement.rs *)

\* The set of the stricter names: the property of C37 does not survive it.
MeasurementName_SPECIAL_CHARACTERS_strict == {SP, COMMA, EQ}

MeasurementName_SPECIAL_CHARACTERS == {SP, COMMA}
MeasurementName_ESCAPE_CHARACTER == BS

MeasurementName_try_from(value) ==
    IF value = <<>> \/ Head(value) = US THEN Err("NameRestriction") ELSE Ok(value)

MeasurementName_from_str(s) ==
    Bind(decode(MeasurementName_SPECIAL_CHARACTERS,
                MeasurementName_ESCAPE_CHARACTER, "Allow", s),
         LAMBDA r : IF r.ok THEN MeasurementName_try_from(r.val) ELSE r)

MeasurementName_fmt(name) ==
    LinearFormatter_chars(MeasurementName_SPECIAL_CHARACTERS,
                          MeasurementName_ESCAPE_CHARACTER, name)

-----------------------------------------------------------------------------
(* Numbers of the standard library, as canonical decimal digit sequences *)

DigitVal(c) ==
    CASE c = "0" -> 0 [] c = "1" -> 1 [] c = "2" -> 2 [] c = "3" -> 3 [] c = "4" -> 4
      [] c = "5" -> 5 [] c = "6" -> 6 [] c = "7" -> 7 [] c = "8" -> 8 [] c = "9" -> 9

AllDigits(s) == \A k \in 1..Len(s) : s[k] \in Digits

RECURSIVE StripZeros(_)
StripZeros(s) ==
    IF s = <<>> \/ Head(s) # "0" THEN s ELSE StripZeros(Tail(s))

RECURSIVE StripTrailingZeros(_)
StripTrailingZeros(s) ==
    IF s = <<>> \/ s[Len(s)] # "0" THEN s ELSE StripTrailingZeros(Take(s, Len(s) - 1))

\* Lexicographic a <= b for digit sequences of the same length.
RECURSIVE LexLE(_, _)
LexLE(a, b) ==
    IF a = <<>> THEN TRUE
    ELSE IF DigitVal(Head(a)) < DigitVal(Head(b)) THEN TRUE
    ELSE IF DigitVal(Head(a)) > DigitVal(Head(b)) THEN FALSE
    ELSE LexLE(Tail(a), Tail(b))

\* a <= b for digit sequences without leading zeros.
MagLE(a, b) == Len(a) < Len(b) \/ (Len(a) = Len(b) /\ LexLE(a, b))

I64_MAX == <<"9","2","2","3","3","7","2","0","3","6","8","5","4","7","7","5","8","0","7">>
I64_MIN_MAG == <<"9","2","2","3","3","7","2","0","3","6","8","5","4","7","7","5","8","0","8">>
U64_MAX == <<"1","8","4","4","6","7","4","4","0","7","3","7","0","9","5","5","1","6","1","5">>

\* A whole number [neg, digits]: digits have no leading zero, zero is <<"0">>.
Whole(neg, ds) ==
    Bind(StripZeros(ds), LAMBDA m :
        IF m = <<>> THEN [neg |-> FALSE, digits |-> <<"0">>] ELSE [neg |-> neg, digits |-> m])

\* str::parse::<i64>: optional sign, at least one digit, nothing else, in range.
parse_i64(s) ==
    LET signed == s # <<>> /\ Head(s) \in {"+", "-"}
        neg == s # <<>> /\ Head(s) = "-"
        ds == IF signed THEN Tail(s) ELSE s
    IN IF ds = <<>> \/ ~AllDigits(ds) THEN Err("ParseIntError")
       ELSE Bind(Whole(neg, ds), LAMBDA w :
                IF MagLE(w.digits, IF w.neg THEN I64_MIN_MAG ELSE I64_MAX)
                THEN Ok(w) ELSE Err("ParseIntError"))

\* str::parse::<u64>: optional '+', at least one digit, nothing else, in range.
parse_u64(s) ==
    LET ds == IF s # <<>> /\ Head(s) = "+" THEN Tail(s) ELSE s
    IN IF ds = <<>> \/ ~AllDigits(ds) THEN Err("ParseIntError")
       ELSE Bind(Whole(FALSE, ds), LAMBDA w :
                IF MagLE(w.digits, U64_MAX) THEN Ok(w) ELSE Err("ParseIntError"))

\* Display of an integer.
fmt_int(w) == (IF w.neg THEN <<"-">> ELSE <<>>) \o w.digits

Lower(c) ==
    CASE c = "I" -> "i" [] c = "N" -> "n" [] c = "F" -> "f" [] c = "A" -> "a"
      [] c = "T" -> "t" [] c = "Y" -> "y" [] OTHER -> c

LowerAll(s) == [k \in 1..Len(s) |-> Lower(s[k])]

\* A float [kind, neg, ip, fp]: ip without leading zeros, fp without trailing
\* zeros (both empty for zero).
Float(kind, neg, ip, fp) == [type |-> "Float", kind |-> kind, neg |-> neg, ip |-> ip, fp |-> fp]

\* Index of the first occurrence of c in s, 0 if none.
RECURSIVE IndexFrom(_, _, _)
IndexFrom(s, c, k) ==
    IF k > Len(s) THEN 0 ELSE IF s[k] = c THEN k ELSE IndexFrom(s, c, k + 1)

find(s, c) == IndexFrom(s, c, 1)

\* A float grammar that skips a type suffix: the property of C12 does not
\* survive it.
parse_f64_suffixed(s) ==
    IF s # <<>> /\ s[Len(s)] \in {"i", "u"} /\ AllDigits(Take(s, Len(s) - 1)) /\ Len(s) > 1
    THEN Ok(Float("num", FALSE, StripZeros(Take(s, Len(s) - 1)), <<>>))
    ELSE Err("ParseFloatError")

\* str::parse::<f64> on literals without an exponent part: optional sign, then
\* inf / infinity / nan in any case, or digits with at most one decimal point
\* and at least one digit.
parse_f64(s) ==
    LET signed == s # <<>> /\ Head(s) \in {"+", "-"}
        neg == s # <<>> /\ Head(s) = "-"
        body == IF signed THEN Tail(s) ELSE s
        low == LowerAll(body)
        dot == find(body, ".")
        ip == IF dot = 0 THEN body ELSE Take(body, dot - 1)
        fp == IF dot = 0 THEN <<>> ELSE Drop(body, dot)
    IN IF low \in {<<"i","n","f">>, <<"i","n","f","i","n","i","t","y">>}
          THEN Ok(Float("inf", neg, <<>>, <<>>))
       ELSE IF low = <<"n","a","n">> THEN Ok(Float("nan", FALSE, <<>>, <<>>))
       ELSE IF AllDigits(ip) /\ AllDigits(fp) /\ Len(ip) + Len(fp) > 0
          THEN Ok(Float("num", neg, StripZeros(ip), StripTrailingZeros(fp)))
       ELSE Err("ParseFloatError")

\* {:?} of an f64 in the plain decimal range.
fmt_f64(x) ==
    CASE x.kind = "nan" -> <<"N","a","N">>
      [] x.kind = "inf" -> (IF x.neg THEN <<"-">> ELSE <<>>) \o <<"i","n","f">>
      [] OTHER -> (IF x.neg THEN <<"-">> ELSE <<>>)
                  \o (IF x.ip = <<>> THEN <<"0">> ELSE x.ip)
                  \o <<".">>
                  \o (IF x.fp = <<>> THEN <<"0">> ELSE x.fp)

\* PartialEq of f64: NaN equals nothing, the two zeros are equal.
f64_eq(x, y) ==
    /\ x.kind # "nan" /\ y.kind # "nan"
    /\ x.kind = y.kind
    /\ x.ip = y.ip /\ x.fp = y.fp
    /\ (x.neg = y.neg \/ (x.kind = "num" /\ x.ip = <<>> /\ x.fp = <<>>))

-----------------------------------------------------------------------------
(* Scalar value types *)

\* A Boolean decoder that ignores the case of the letters: the property of C14
\* does not survive it.
Boolean_from_str_any_case(s) ==
    IF LowerAll(s) \in {<<"t">>, <<"t","r","u","e">>} THEN Ok(TRUE)
    ELSE IF LowerAll(s) \in {<<"f">>, <<"f","a","l","s","e">>} THEN Ok(FALSE)
    ELSE Err("BooleanParseError")

\* types/boolean.rs
Boolean_from_str(s) ==
    IF s \in {<<"t">>, <<"T">>, <<"t","r","u","e">>, <<"T","r","u","e">>, <<"T","R","U","E">>}
       THEN Ok(TRUE)
    ELSE IF s \in {<<"f">>, <<"F">>, <<"f","a","l","s","e">>, <<"F","a","l","s","e">>,
                   <<"F","A","L","S","E">>}
       THEN Ok(FALSE)
    ELSE Err("BooleanParseError")

Boolean_fmt(b) == IF b THEN <<"t","r","u","e">> ELSE <<"f","a","l","s","e">>

\* s.split_once(c): the text before and after the first c.
split_once(s, c) ==
    Bind(find(s, c), LAMBDA k :
        IF k = 0 THEN None ELSE Some(<<Take(s, k - 1), Drop(s, k)>>))

\* The Integer decoder without the look at what follows the suffix: the property
\* of C13 does not survive it.
InfluxInteger_from_str_open(s) ==
    Bind(split_once(s, "i"), LAMBDA sp :
        IF ~sp.some THEN Err("IntegerNotParsed")
        ELSE Bind(parse_i64(sp.v[1]),
                  LAMBDA r : IF r.ok THEN r ELSE Err("IntegerNotParsed")))

\* types/integer.rs
InfluxInteger_from_str(s) ==
    Bind(split_once(s, "i"), LAMBDA sp :
        IF ~sp.some THEN Err("IntegerNotParsed")
        ELSE IF sp.v[2] # <<>> THEN Err("IntegerNotParsed")
        ELSE Bind(parse_i64(sp.v[1]),
                  LAMBDA r : IF r.ok THEN r ELSE Err("IntegerNotParsed")))

InfluxUInteger_from_str(s) ==
    Bind(split_once(s, "u"), LAMBDA sp :
        IF ~sp.some THEN Err("UIntegerNotParsed")
        ELSE IF sp.v[2] # <<>> THEN Err("UIntegerNotParsed")
        ELSE Bind(parse_u64(sp.v[1]),
                  LAMBDA r : IF r.ok THEN r ELSE Err("UIntegerNotParsed")))

InfluxInteger_fmt(w) == fmt_int(w) \o <<"i">>
InfluxUInteger_fmt(w) == fmt_int(w) \o <<"u">>

\* A decoder for i64 only as Display writes it: the property of C29 does not
\* survive it.
Timestamp_from_str_canonical(s) ==
    Bind(parse_i64(s), LAMBDA r :
        IF r.ok /\ s = fmt_int(r.val) THEN r ELSE Err("TimestampNotParsed"))

\* types/timestamp.rs
Timestamp_from_str(s) ==
    Bind(parse_i64(s), LAMBDA r : IF r.ok THEN r ELSE Err("TimestampNotParsed"))

Timestamp_fmt(w) == fmt_int(w)

\* Bytes of a character in UTF-8; E_ACUTE stands for a two-byte character.
E_ACUTE == "U+00E9"
len_utf8(c) == IF c = E_ACUTE THEN 2 ELSE 1

RECURSIVE str_len(_)
str_len(s) == IF s = <<>> THEN 0 ELSE len_utf8(Head(s)) + str_len(Tail(s))

\* types/string/quoted.rs
QuotedString_SPECIAL_CHARACTERS == {DQ, BS}
QuotedString_ESCAPE_CHARACTER == BS

\* s.chars().skip(1).take(s.len() - 2): the count taken is a byte length.
QuotedString_interior(s) ==
    LET rest == Drop(s, 1)
        n == str_len(s) - 2
    IN IF n >= Len(rest) THEN rest ELSE Take(rest, n)

QuotedString_from_str(s) ==
    IF s = <<>> THEN Err("NoQuoteDelimiter")
    ELSE IF str_len(s) < 2 \/ Head(s) # DQ \/ s[Len(s)] # DQ THEN Err("NoQuoteDelimiter")
    ELSE decode(QuotedString_SPECIAL_CHARACTERS, QuotedString_ESCAPE_CHARACTER,
                "Forbid", QuotedString_interior(s))

QuotedString_fmt(s) ==
    <<DQ>> \o LinearFormatter_chars(QuotedString_SPECIAL_CHARACTERS,
                                    QuotedString_ESCAPE_CHARACTER, s) \o <<DQ>>

-----------------------------------------------------------------------------
(* InfluxValue: types/value.rs *)

VFloat(x) == x
VInteger(w) == [type |-> "Integer", neg |-> w.neg, digits |-> w.digits]
VUInteger(w) == [type |-> "UInteger", neg |-> w.neg, digits |-> w.digits]
VBoolean(b) == [type |-> "Boolean", b |-> b]
VString(s) == [type |-> "String", s |-> s]

\* Resolution without the Boolean decoder: the property of C11 does not survive it.
InfluxValue_from_str_no_boolean(s) ==
    Bind(parse_f64(s), LAMBDA f :
      IF f.ok THEN Ok(VFloat(f.val))
      ELSE Bind(InfluxInteger_from_str(s), LAMBDA i :
        IF i.ok THEN Ok(VInteger(i.val))
        ELSE Bind(InfluxUInteger_from_str(s), LAMBDA u :
          IF u.ok THEN Ok(VUInteger(u.val))
          ELSE Bind(QuotedString_from_str(s), LAMBDA q :
            IF q.ok THEN Ok(VString(q.val))
            ELSE Err("BadValue")))))

InfluxValue_from_str(s) ==
    Bind(parse_f64(s), LAMBDA f :
      IF f.ok THEN Ok(VFloat(f.val))
      ELSE Bind(InfluxInteger_from_str(s), LAMBDA i :
        IF i.ok THEN Ok(VInteger(i.val))
        ELSE Bind(InfluxUInteger_from_str(s), LAMBDA u :
          IF u.ok THEN Ok(VUInteger(u.val))
          ELSE Bind(Boolean_from_str(s), LAMBDA b :
            IF b.ok THEN Ok(VBoolean(b.val))
            ELSE Bind(QuotedString_from_str(s), LAMBDA q :
              IF q.ok THEN Ok(VString(q.val))
              ELSE Err("BadValue"))))))

InfluxValue_fmt(v) ==
    CASE v.type = "Float" -> fmt_f64(v)
      [] v.type = "Integer" -> InfluxInteger_fmt(v)
      [] v.type = "UInteger" -> InfluxUInteger_fmt(v)
      [] v.type = "Boolean" -> Boolean_fmt(v.b)
      [] v.type = "String" -> QuotedString_fmt(v.s)

\* derive(PartialEq) on InfluxValue.
InfluxValue_eq(a, b) ==
    /\ a.type = b.type
    /\ IF a.type = "Float" THEN f64_eq(a, b) ELSE a = b

-----------------------------------------------------------------------------
(* Segment tokenizer: line/parsing *)

\* line/parsing/mod.rs: split at the delimiter at position k, delimiter excluded.
exclusive_split_at(s, k) == <<Take(s, k - 1), Drop(s, k)>>

Tail_(kind, rest) == [kind |-> kind, rest |-> rest]

\* A key scanner that stays escaped over a run of backslashes, as the
\* measurement scanner does: the property of C31 does not survive it.
RECURSIVE KeyParser_scan_sticky(_, _, _)
KeyParser_scan_sticky(text, k, escaped) ==
    IF k > Len(text) THEN Err("NoValue")
    ELSE LET character == text[k] IN
         CASE escaped = "No" /\ character = BS -> KeyParser_scan_sticky(text, k + 1, "Yes")
           [] escaped = "No" /\ character \in {SP, COMMA} -> Err("UnescapedSpecialCharacter")
           [] escaped = "No" /\ character = EQ -> Ok(exclusive_split_at(text, k))
           [] escaped = "No" /\ character \notin {BS, SP, COMMA, EQ} ->
                KeyParser_scan_sticky(text, k + 1, "No")
           [] escaped = "Yes" /\ character = BS -> KeyParser_scan_sticky(text, k + 1, "Yes")
           [] escaped = "Yes" /\ character # BS -> KeyParser_scan_sticky(text, k + 1, "No")

\* line/parsing/key.rs
RECURSIVE KeyParser_scan(_, _, _)
KeyParser_scan(text, k, escaped) ==
    IF k > Len(text) THEN Err("NoValue")
    ELSE LET character == text[k] IN
         CASE escaped = "No" /\ character = BS -> KeyParser_scan(text, k + 1, "Yes")
           [] escaped = "No" /\ character \in {SP, COMMA} -> Err("UnescapedSpecialCharacter")
           [] escaped = "No" /\ character = EQ -> Ok(exclusive_split_at(text, k))
           [] escaped = "No" /\ character \notin {BS, SP, COMMA, EQ} ->
                KeyParser_scan(text, k + 1, "No")
           [] escaped = "Yes" -> KeyParser_scan(text, k + 1, "No")

KeyParser_process(text) == KeyParser_scan(text, 1, "No")

\* line/parsing/measurement.rs
RECURSIVE MeasurementParser_scan(_, _, _)
MeasurementParser_scan(text, k, escaped) ==
    IF k > Len(text) THEN Err("NoWhitespaceDelimiter")
    ELSE LET character == text[k] IN
         CASE escaped = "No" /\ character \in {COMMA, SP} /\ k = 1 -> Err("NoMeasurement")
           [] escaped = "No" /\ character = COMMA /\ k # 1 ->
                Ok([measurement |-> exclusive_split_at(text, k)[1],
                    tail |-> Tail_("Tags", exclusive_split_at(text, k)[2])])
           [] escaped = "No" /\ character = SP /\ k # 1 ->
                Ok([measurement |-> exclusive_split_at(text, k)[1],
                    tail |-> Tail_("Fields", exclusive_split_at(text, k)[2])])
           [] escaped = "No" /\ character = BS -> MeasurementParser_scan(text, k + 1, "Yes")
           [] escaped = "No" /\ character \notin {COMMA, SP, BS} ->
                MeasurementParser_scan(text, k + 1, "No")
           [] escaped = "Yes" /\ character = BS -> MeasurementParser_scan(text, k + 1, "Yes")
           [] escaped = "Yes" /\ character # BS -> MeasurementParser_scan(text, k + 1, "No")

MeasurementParser_process(text) == MeasurementParser_scan(text, 1, "No")

\* line/parsing/tag.rs
RECURSIVE TagValueParser_scan(_, _, _)
TagValueParser_scan(text, k, escaped) ==
    IF k > Len(text) THEN Err("NoFields")
    ELSE LET character == text[k] IN
         CASE escaped = "No" /\ character \in {COMMA, SP} /\ k = 1 -> Err("NoValue")
           [] escaped = "No" /\ character = COMMA /\ k # 1 ->
                Ok([value |-> exclusive_split_at(text, k)[1],
                    tail |-> Tail_("Tag", exclusive_split_at(text, k)[2])])
           [] escaped = "No" /\ character = SP /\ k # 1 ->
                Ok([value |-> exclusive_split_at(text, k)[1],
                    tail |-> Tail_("Fields", exclusive_split_at(text, k)[2])])
           [] escaped = "No" /\ character = BS -> TagValueParser_scan(text, k + 1, "Yes")
           [] escaped = "No" /\ character \notin {COMMA, SP, BS} ->
                TagValueParser_scan(text, k + 1, "No")
           [] escaped = "Yes" /\ character = BS -> TagValueParser_scan(text, k + 1, "Yes")
           [] escaped = "Yes" /\ character # BS -> TagValueParser_scan(text, k + 1, "No")

TagValueParser_process(text) == TagValueParser_scan(text, 1, "No")

TagParser_process(text) ==
    Bind(KeyParser_process(text), LAMBDA kr :
        IF ~kr.ok THEN kr
        ELSE Bind(TagValueParser_process(kr.val[2]), LAMBDA vr :
            IF ~vr.ok THEN vr
            ELSE Ok([pair |-> [key |-> kr.val[1], value |-> vr.val.value],
                     tail |-> vr.val.tail])))

\* A bare-value scanner in which a backslash escapes the next character: the
\* property of C26 does not survive it.
RECURSIVE SimpleValueParser_scan_escaping(_, _)
SimpleValueParser_scan_escaping(text, k) ==
    IF k > Len(text) THEN Ok([value |-> text, tail |-> Tail_("None", <<>>)])
    ELSE LET character == text[k] IN
         CASE character = BS -> SimpleValueParser_scan_escaping(text, k + 2)
           [] character \in {SP, COMMA} /\ k = 1 -> Err("NoValue")
           [] character = SP /\ k # 1 ->
                Ok([value |-> exclusive_split_at(text, k)[1],
                    tail |-> Tail_("Timestamp", exclusive_split_at(text, k)[2])])
           [] character = COMMA /\ k # 1 ->
                Ok([value |-> exclusive_split_at(text, k)[1],
                    tail |-> Tail_("Field", exclusive_split_at(text, k)[2])])
           [] character = NL ->
                Ok([value |-> exclusive_split_at(text, k)[1], tail |-> Tail_("None", <<>>)])
           [] OTHER -> SimpleValueParser_scan_escaping(text, k + 1)

\* line/parsing/field.rs
RECURSIVE SimpleValueParser_scan(_, _)
SimpleValueParser_scan(text, k) ==
    IF k > Len(text) THEN Ok([value |-> text, tail |-> Tail_("None", <<>>)])
    ELSE LET character == text[k] IN
         CASE character = BS -> Err("UnexpectedEscapeSymbol")
           [] character \in {SP, COMMA} /\ k = 1 -> Err("NoValue")
           [] character = SP /\ k # 1 ->
                Ok([value |-> exclusive_split_at(text, k)[1],
                    tail |-> Tail_("Timestamp", exclusive_split_at(text, k)[2])])
           [] character = COMMA /\ k # 1 ->
                Ok([value |-> exclusive_split_at(text, k)[1],
                    tail |-> Tail_("Field", exclusive_split_at(text, k)[2])])
           [] character = NL ->
                Ok([value |-> exclusive_split_at(text, k)[1], tail |-> Tail_("None", <<>>)])
           [] OTHER -> SimpleValueParser_scan(text, k + 1)

SimpleValueParser_process(text) == SimpleValueParser_scan(text, 1)

\* StringValueParser::consume_char: the parser after the character, the
\* transition it asks for ("" for none) and the error ("" for none).
consume_char(p, character) ==
    LET stay(q) == [p |-> q, transition |-> "", err |-> ""]
        fail(e) == [p |-> p, transition |-> "", err |-> e]
    IN CASE p.state = "Start" /\ character = DQ -> stay([p EXCEPT !.state = "StringLeftQuote"])
         [] p.state = "Start" /\ character # DQ -> fail("NoQuoteDelimiter")
         [] p.state = "StringLeftQuote" /\ character = DQ ->
              stay([p EXCEPT !.state = "StringRightQuote"])
         [] p.state = "StringLeftQuote" /\ character # DQ ->
              stay([state |-> "StringContent",
                    escaped |-> IF character = BS THEN "Yes" ELSE p.escaped])
         [] p.state = "StringContent" /\ p.escaped = "No" /\ character = BS ->
              stay([p EXCEPT !.escaped = "Yes"])
         [] p.state = "StringContent" /\ p.escaped = "No" /\ character = DQ ->
              stay([p EXCEPT !.state = "StringRightQuote"])
         [] p.state = "StringContent" /\ p.escaped = "No" /\ character \notin {BS, DQ} ->
              stay(p)
         [] p.state = "StringContent" /\ p.escaped = "Yes" /\ character \in {BS, DQ} ->
              stay([p EXCEPT !.escaped = "No"])
         [] p.state = "StringContent" /\ p.escaped = "Yes" /\ character \notin {BS, DQ} ->
              fail("UnexpectedEscapeSymbol")
         [] p.state = "StringRightQuote" /\ character = COMMA ->
              [p |-> p, transition |-> "ToNextField", err |-> ""]
         [] p.state = "StringRightQuote" /\ character = SP ->
              [p |-> p, transition |-> "ToTimestamp", err |-> ""]
         [] p.state = "StringRightQuote" /\ character \notin {COMMA, SP} ->
              fail("SymbolsAfterClosedString")

\* A quoted-value scanner that takes the end of the text for the closing quote:
\* the property of C27 does not survive it.
RECURSIVE StringValueParser_scan_unclosed(_, _, _)
StringValueParser_scan_unclosed(text, k, p) ==
    IF k > Len(text)
    THEN CASE p.state \in {"StringRightQuote", "StringContent"} ->
                Ok([value |-> text, tail |-> Tail_("None", <<>>)])
           [] p.state = "Start" -> Err("Failed")
           [] OTHER -> Err("NoQuoteDelimiter")
    ELSE Bind(consume_char(p, text[k]), LAMBDA r :
         IF r.err # "" THEN Err(r.err)
         ELSE IF r.transition = "ToNextField"
              THEN Ok([value |-> exclusive_split_at(text, k)[1],
                       tail |-> Tail_("Field", exclusive_split_at(text, k)[2])])
         ELSE IF r.transition = "ToTimestamp"
              THEN Ok([value |-> exclusive_split_at(text, k)[1],
                       tail |-> Tail_("Timestamp", exclusive_split_at(text, k)[2])])
         ELSE StringValueParser_scan_unclosed(text, k + 1, r.p))

RECURSIVE StringValueParser_scan(_, _, _)
StringValueParser_scan(text, k, p) ==
    IF k > Len(text)
    THEN CASE p.state = "StringRightQuote" -> Ok([value |-> text, tail |-> Tail_("None", <<>>)])
           [] p.state = "Start" -> Err("Failed")
           [] OTHER -> Err("NoQuoteDelimiter")
    ELSE Bind(consume_char(p, text[k]), LAMBDA r :
         IF r.err # "" THEN Err(r.err)
         ELSE IF r.transition = "ToNextField"
              THEN Ok([value |-> exclusive_split_at(text, k)[1],
                       tail |-> Tail_("Field", exclusive_split_at(text, k)[2])])
         ELSE IF r.transition = "ToTimestamp"
              THEN Ok([value |-> exclusive_split_at(text, k)[1],
                       tail |-> Tail_("Timestamp", exclusive_split_at(text, k)[2])])
         ELSE StringValueParser_scan(text, k + 1, r.p))

StringValueParser_process(text) ==
    StringValueParser_scan(text, 1, [state |-> "Start", escaped |-> "No"])

FieldValueParser_process(text) ==
    IF text = <<>> THEN Err("NoValue")
    ELSE IF Head(text) = DQ THEN StringValueParser_process(text)
    ELSE SimpleValueParser_process(text)

FieldParser_process(text) ==
    Bind(KeyParser_process(text), LAMBDA kr :
        IF ~kr.ok THEN kr
        ELSE Bind(FieldValueParser_process(kr.val[2]), LAMBDA vr :
            IF ~vr.ok THEN vr
            ELSE Ok([pair |-> [key |-> kr.val[1], value |-> vr.val.value],
                     tail |-> vr.val.tail])))

\* line/parsing/mod.rs: the tag loop.
RECURSIVE parse_tags_loop(_, _)
parse_tags_loop(pairs, tail) ==
    Bind(TagParser_process(tail), LAMBDA r :
        IF ~r.ok THEN r
        ELSE IF r.val.tail.kind = "Tag"
             THEN parse_tags_loop(Append(pairs, r.val.pair), r.val.tail.rest)
        ELSE Ok([pairs |-> Append(pairs, r.val.pair), fields |-> r.val.tail.rest]))

parse_tags(text) == parse_tags_loop(<<>>, text)

\* A field loop that ends quietly when nothing follows the delimiter: the
\* property of C35 does not survive it.
RECURSIVE parse_fields_loop_trimmed(_, _)
parse_fields_loop_trimmed(pairs, tail) ==
    Bind(FieldParser_process(tail), LAMBDA r :
        IF ~r.ok THEN r
        ELSE IF r.val.tail.rest = <<>>
             THEN Ok([pairs |-> Append(pairs, r.val.pair), timestamp |-> None])
        ELSE IF r.val.tail.kind = "Field"
             THEN parse_fields_loop_trimmed(Append(pairs, r.val.pair), r.val.tail.rest)
        ELSE Ok([pairs |-> Append(pairs, r.val.pair),
                 timestamp |-> Some(r.val.tail.rest)]))

\* line/parsing/mod.rs: the field loop.
RECURSIVE parse_fields_loop(_, _)
parse_fields_loop(pairs, tail) ==
    Bind(FieldParser_process(tail), LAMBDA r :
        IF ~r.ok THEN r
        ELSE IF r.val.tail.kind = "Field"
             THEN parse_fields_loop(Append(pairs, r.val.pair), r.val.tail.rest)
        ELSE IF r.val.tail.kind = "Timestamp"
             THEN Ok([pairs |-> Append(pairs, r.val.pair),
                      timestamp |-> Some(r.val.tail.rest)])
        ELSE Ok([pairs |-> Append(pairs, r.val.pair), timestamp |-> None]))

parse_fields(text) == parse_fields_loop(<<>>, text)

LinearLineParser_process(text) ==
    Bind(MeasurementParser_process(text), LAMBDA m :
      IF ~m.ok THEN m
      ELSE Bind(IF m.val.tail.kind = "Tags" THEN parse_tags(m.val.tail.rest)
                ELSE Ok([pairs |-> <<>>, fields |-> m.val.tail.rest]),
                LAMBDA t :
        IF ~t.ok THEN t
        ELSE Bind(parse_fields(t.val.fields), LAMBDA f :
          IF ~f.ok THEN f
          ELSE Ok([measurement |-> m.val.measurement,
                   tags |-> t.val.pairs,
                   fields |-> f.val.pairs,
                   timestamp |-> f.val.timestamp]))))

-----------------------------------------------------------------------------
(* KeyValueStorage: line/hash_like.rs *)

Pair(k, v) == [key |-> k, value |-> v]

KeyValueStorage_new == <<>>

KeyValueStorage_from_iter(pairs) == pairs

KeyValueStorage_is_empty(storage) == storage = <<>>

\* Position of the first pair with the key, 0 if none.
RECURSIVE KeyValueStorage_find(_, _, _)
KeyValueStorage_find(storage, key, k) ==
    IF k > Len(storage) THEN 0
    ELSE IF storage[k].key = key THEN k
    ELSE KeyValueStorage_find(storage, key, k + 1)

KeyValueStorage_add(storage, pair) ==
    LET k == KeyValueStorage_find(storage, pair.key, 1) IN
    IF k # 0 THEN [storage EXCEPT ![k].value = pair.value]
    ELSE Append(storage, pair)

KeyValueStorage_put(storage, key, value) == KeyValueStorage_add(storage, Pair(key, value))

KeyValueStorage_get(storage, key) ==
    LET k == KeyValueStorage_find(storage, key, 1) IN
    IF k # 0 THEN Some(storage[k].value) ELSE None

-----------------------------------------------------------------------------
(* InfluxLine: line/mod.rs *)

\* full without the emptiness check on the fields: the property of C3 does not
\* survive it.
InfluxLine_full_unchecked(measurement, tags, fields, timestamp) ==
    Ok([measurement |-> measurement,
        tags |-> KeyValueStorage_from_iter(tags),
        fields |-> KeyValueStorage_from_iter(fields),
        timestamp |-> timestamp])

InfluxLine_full(measurement, tags, fields, timestamp) ==
    LET actual_fields == KeyValueStorage_from_iter(fields) IN
    IF KeyValueStorage_is_empty(actual_fields) THEN Err("NoFields")
    ELSE Ok([measurement |-> measurement,
             tags |-> KeyValueStorage_from_iter(tags),
             fields |-> actual_fields,
             timestamp |-> timestamp])

InfluxLine_new(measurement, field, value) ==
    [measurement |-> measurement,
     tags |-> KeyValueStorage_new,
     fields |-> KeyValueStorage_from_iter(<<Pair(field, value)>>),
     timestamp |-> None]

InfluxLine_try_new(measurement, field, value) ==
    Bind(MeasurementName_try_from(measurement), LAMBDA m :
        IF ~m.ok THEN m
        ELSE Bind(KeyName_new(field), LAMBDA k :
            IF ~k.ok THEN k ELSE Ok(InfluxLine_new(m.val, k.val, value))))

InfluxLine_with_timestamp(self, timestamp) == [self EXCEPT !.timestamp = Some(timestamp)]

\* The conversion to a Timestamp is an input: Some(nanoseconds), or None when
\* the instant is out of range.
InfluxLine_try_with_timestamp(self, converted) ==
    IF ~converted.some THEN Err("DateTimeOutOfRange")
    ELSE Ok([self EXCEPT !.timestamp = Some(converted.v)])

InfluxLine_with_tag(self, tag, value) ==
    [self EXCEPT !.tags = KeyValueStorage_put(@, tag, value)]

InfluxLine_try_with_tag(self, tag, value) ==
    LET k == KeyName_new(tag)
        v == KeyName_new(value)
    IN IF ~k.ok THEN k ELSE IF ~v.ok THEN v
       ELSE Ok([self EXCEPT !.tags = KeyValueStorage_put(@, k.val, v.val)])

\* A with_field that writes into the tags: the property of C38 does not
\* survive it.
InfluxLine_with_field_as_tag(self, field, value) ==
    [self EXCEPT !.tags = KeyValueStorage_put(@, field, value)]

InfluxLine_with_field(self, field, value) ==
    [self EXCEPT !.fields = KeyValueStorage_put(@, field, value)]

InfluxLine_try_with_field(self, field, value) ==
    LET k == KeyName_new(field) IN
    IF ~k.ok THEN k
    ELSE Ok([self EXCEPT !.fields = KeyValueStorage_put(@, k.val, value)])

InfluxLine_tag(self, name) == KeyValueStorage_get(self.tags, name)
InfluxLine_field(self, name) == KeyValueStorage_get(self.fields, name)

\* line/parsing/mod.rs: (KeyName, KeyName) and (KeyName, InfluxValue) from a raw pair.
\* A tag pair taken over as it stands in the text, still escaped: the property
\* of C10 does not survive it.
tag_try_from_raw(pair) == Ok(pair)

tag_try_from(pair) ==
    Bind(KeyName_from_str(pair.key), LAMBDA k :
        IF ~k.ok THEN k
        ELSE Bind(KeyName_from_str(pair.value), LAMBDA v :
            IF ~v.ok THEN v ELSE Ok(Pair(k.val, v.val))))

field_try_from(pair) ==
    Bind(KeyName_from_str(pair.key), LAMBDA k :
        IF ~k.ok THEN k
        ELSE Bind(InfluxValue_from_str(pair.value), LAMBDA v :
            IF ~v.ok THEN v ELSE Ok(Pair(k.val, v.val))))

\* .map(try_from).collect::<Result<Vec<_>, _>>(): the first error, or all values.
RECURSIVE collect_tags(_, _)
collect_tags(raw, acc) ==
    IF raw = <<>> THEN Ok(acc)
    ELSE Bind(tag_try_from(Head(raw)), LAMBDA r :
             IF ~r.ok THEN r ELSE collect_tags(Tail(raw), Append(acc, r.val)))

RECURSIVE collect_fields(_, _)
collect_fields(raw, acc) ==
    IF raw = <<>> THEN Ok(acc)
    ELSE Bind(field_try_from(Head(raw)), LAMBDA r :
             IF ~r.ok THEN r ELSE collect_fields(Tail(raw), Append(acc, r.val)))

\* impl TryFrom<RawLine> for InfluxLine
InfluxLine_try_from(raw) ==
    Bind(MeasurementName_from_str(raw.measurement), LAMBDA m :
      IF ~m.ok THEN m
      ELSE Bind(collect_tags(raw.tags, <<>>), LAMBDA t :
        IF ~t.ok THEN t
        ELSE Bind(collect_fields(raw.fields, <<>>), LAMBDA f :
          IF ~f.ok THEN f
          ELSE Bind(IF raw.timestamp.some THEN Timestamp_from_str(raw.timestamp.v)
                    ELSE Ok(<<>>),
                    LAMBDA ts :
            IF ~ts.ok THEN ts
            ELSE InfluxLine_full(m.val, t.val, f.val,
                                 IF raw.timestamp.some THEN Some(ts.val) ELSE None)))))

\* impl FromStr for InfluxLine
InfluxLine_from_str(s) ==
    Bind(LinearLineParser_process(s), LAMBDA raw_line :
        IF ~raw_line.ok THEN raw_line
        ELSE Bind(raw_line.val, LAMBDA raw : InfluxLine_try_from(raw)))

\* What Display writes for the measurement: f.write_str(&self.measurement)
\* writes the string the name derefs to.
InfluxLine_fmt_measurement(self) == self.measurement

RECURSIVE InfluxLine_fmt_tags(_)
InfluxLine_fmt_tags(tags) ==
    IF tags = <<>> THEN <<>>
    ELSE <<COMMA>> \o KeyName_fmt(Head(tags).key) \o <<EQ>> \o KeyName_fmt(Head(tags).value)
         \o InfluxLine_fmt_tags(Tail(tags))

RECURSIVE InfluxLine_fmt_fields(_, _)
InfluxLine_fmt_fields(fields, index) ==
    IF index > Len(fields) THEN <<>>
    ELSE (IF index # 1 THEN <<COMMA>> ELSE <<SP>>)
         \o KeyName_fmt(fields[index].key) \o <<EQ>> \o InfluxValue_fmt(fields[index].value)
         \o InfluxLine_fmt_fields(fields, index + 1)

\* Display with the fields joined to the tags without the space: the property
\* of C8 does not survive it.
InfluxLine_fmt_fields_unspaced(self) ==
    InfluxLine_fmt_measurement(self)
    \o InfluxLine_fmt_tags(self.tags)
    \o Tail(InfluxLine_fmt_fields(self.fields, 1))
    \o (IF self.timestamp.some THEN <<SP>> \o Timestamp_fmt(self.timestamp.v) ELSE <<>>)

\* impl Display for InfluxLine
InfluxLine_fmt(self) ==
    InfluxLine_fmt_measurement(self)
    \o InfluxLine_fmt_tags(self.tags)
    \o InfluxLine_fmt_fields(self.fields, 1)
    \o (IF self.timestamp.some THEN <<SP>> \o Timestamp_fmt(self.timestamp.v) ELSE <<>>)

\* derive(PartialEq) on KeyValueStorage<KeyName>: Vec equality, position by position.
tags_eq(a, b) == a = b

\* derive(PartialEq) on KeyValueStorage<InfluxValue>.
fields_eq(a, b) ==
    /\ Len(a) = Len(b)
    /\ \A k \in 1..Len(a) : a[k].key = b[k].key /\ InfluxValue_eq(a[k].value, b[k].value)

\* derive(PartialEq) on InfluxLine.
InfluxLine_eq(a, b) ==
    /\ a.measurement = b.measurement
    /\ tags_eq(a.tags, b.tags)
    /\ fields_eq(a.fields, b.fields)
    /\ a.timestamp = b.timestamp

-----------------------------------------------------------------------------
(* Inputs *)

\* Number of builder calls made on one line.
MaxOps == 2

\* Raw (still escaped) segments the input texts are assembled from.
MeasSegs ==
    { <<"m">>, <<"a", BS, SP, "b">>, <<"a", BS, COMMA, "b">>, <<"x", EQ, "y">> }

RawTagLists ==
    { <<>>,
      << Pair(<<"k">>, <<"v">>), Pair(<<"j", BS, EQ>>, <<"v", BS, SP, "w">>) >>,
      << Pair(<<"k">>, <<"v">>), Pair(<<"k">>, <<"w">>) >> }

RawFieldLists ==
    { << Pair(<<"f">>, <<"1">>) >>,
      << Pair(<<"g", BS, SP, "h">>, <<DQ, "s", SP, "t", DQ>>) >>,
      << Pair(<<"f">>, <<"-", "2", "i">>), Pair(<<"g", BS, SP, "h">>, <<DQ, "s", SP, "t", DQ>>) >>,
      << Pair(<<"f">>, <<"1">>), Pair(<<"f">>, <<"3", "u">>) >>,
      << Pair(<<"f">>, <<"T">>) >>,
      << Pair(<<"f">>, <<"n", "a", "n">>) >> }

RawTimestamps == { None, Some(<<"5">>) }

StructuredParts ==
    [known : {TRUE}, measurement : MeasSegs, tags : RawTagLists, fields : RawFieldLists,
     timestamp : RawTimestamps, newline : BOOLEAN]

NoParts ==
    [known |-> FALSE, measurement |-> <<>>, tags |-> <<>>, fields |-> <<>>,
     timestamp |-> None, newline |-> FALSE]

\* Texts that are not assembled from well-formed segments.
OddTexts ==
    { <<>>,
      <<"m">>,
      <<"m", SP>>,
      <<"m", COMMA, "k", EQ, "v">>,
      <<"m", COMMA, "k", EQ, "v", SP, "5">>,
      <<"m", SP, "f", EQ, "1", SP, "x">>,
      <<"m", SP, "f", EQ, "n", BS, SP, "s", SP, "5">>,
      <<"_", "m", SP, "f", EQ, "1">>,
      <<"m", SP, "_", "f", EQ, "1">>,
      <<"m", SP, "f", EQ, "1", NL, "z">>,
      <<"m", SP, "f", EQ, "1", COMMA>>,
      <<"m", SP, "f", EQ, DQ, "s">> }

RECURSIVE AssembleTags(_)
AssembleTags(tags) ==
    IF tags = <<>> THEN <<>>
    ELSE <<COMMA>> \o Head(tags).key \o <<EQ>> \o Head(tags).value \o AssembleTags(Tail(tags))

RECURSIVE AssembleFields(_)
AssembleFields(fields) ==
    IF fields = <<>> THEN <<>>
    ELSE Head(fields).key \o <<EQ>> \o Head(fields).value
         \o (IF Len(fields) > 1 THEN <<COMMA>> ELSE <<>>) \o AssembleFields(Tail(fields))

\* The text of a line with the given raw segments, in the wire grammar.
Assemble(p) ==
    p.measurement \o AssembleTags(p.tags) \o <<SP>> \o AssembleFields(p.fields)
    \o (IF p.timestamp.some THEN <<SP>> \o p.timestamp.v ELSE <<>>)
    \o (IF p.newline THEN <<NL>> ELSE <<>>)

Reverse(s) == [k \in 1..Len(s) |-> s[Len(s) + 1 - k]]

\* Validated names and values handed to the builder.
MeasurementNames == { <<"m">>, <<"a", SP, "b">>, <<"a", COMMA, "b", EQ, "c">> }
FieldKeys == { <<"f">>, <<"n", SP, "x">> }
FieldValues == { VInteger(Whole(FALSE, <<"1", "5">>)), VString(<<"s", DQ, "t">>) }
TagArgs == { Pair(<<"k">>, <<"w">>), Pair(<<"n", SP, "x">>, <<"v">>) }
FieldArgs ==
    { Pair(<<"f">>, VInteger(Whole(FALSE, <<"1", "5">>))),
      Pair(<<"n", SP, "x">>, VFloat(Float("num", FALSE, <<"1">>, <<"5">>))) }
Timestamps == { Whole(FALSE, <<"6">>) }

\* Unchecked strings handed to the try_ constructors and builder calls.
UncheckedNames == { <<"k">>, <<>>, <<US, "k">> }
UncheckedTagArgs == { Pair(<<"k">>, <<"w">>), Pair(<<US, "k">>, <<"w">>), Pair(<<"k">>, <<>>) }
UncheckedFieldArgs ==
    { Pair(<<"f">>, VInteger(Whole(FALSE, <<"1", "5">>))),
      Pair(<<>>, VInteger(Whole(FALSE, <<"1", "5">>))) }

TagLists ==
    { <<>>,
      << Pair(<<"k">>, <<"v">>), Pair(<<"j">>, <<"w">>) >>,
      << Pair(<<"k">>, <<"v">>), Pair(<<"k">>, <<"w">>) >> }

FieldLists ==
    { <<>>, << Pair(<<"f">>, VBoolean(TRUE)) >>,
      << Pair(<<"f">>, VBoolean(TRUE)), Pair(<<"g">>, VString(<<E_ACUTE>>)) >>,
      << Pair(<<"f">>, VBoolean(TRUE)), Pair(<<"f">>, VBoolean(FALSE)) >> }

NoLine == Err("Unset")

-----------------------------------------------------------------------------
(* The state machine *)

Init ==
    /\ line = NoLine
    /\ origin = "none"
    /\ input = <<>>
    /\ parts = NoParts
    /\ tagLog = <<>>
    /\ fieldLog = <<>>
    /\ other = NoLine
    /\ out = None
    /\ back = NoLine
    /\ nops = 0
    /\ prev = NoLine
    /\ last = "none"
    /\ phase = "start"

\* The bookkeeping of a construction whose result is already in line';
\* tagPairs and fieldPairs are the pairs handed to it, in the order given.
Constructed(how, p, tagPairs, fieldPairs) ==
    /\ origin' = how
    /\ parts' = p
    /\ tagLog' = tagPairs
    /\ fieldLog' = fieldPairs
    /\ phase' = "build"
    /\ last' = how
    /\ UNCHANGED <<other, out, back, nops, prev>>

\* InfluxLine::from_str on a text assembled from raw segments.
FromStr ==
    /\ phase = "start"
    /\ \E p \in StructuredParts :
          /\ input' = Assemble(p)
          /\ line' = InfluxLine_from_str(input')
          /\ Constructed("from_str", p,
                         IF line'.ok THEN line'.val.tags ELSE <<>>,
                         IF line'.ok THEN line'.val.fields ELSE <<>>)

\* InfluxLine::from_str on any other text.
FromStrOdd ==
    /\ phase = "start"
    /\ \E t \in OddTexts :
          /\ input' = t
          /\ line' = InfluxLine_from_str(t)
          /\ Constructed("from_str", NoParts,
                         IF line'.ok THEN line'.val.tags ELSE <<>>,
                         IF line'.ok THEN line'.val.fields ELSE <<>>)

\* InfluxLine::new
New ==
    /\ phase = "start"
    /\ \E m \in MeasurementNames, k \in FieldKeys, v \in FieldValues :
          /\ line' = Ok(InfluxLine_new(m, k, v))
          /\ input' = <<>>
          /\ Constructed("new", NoParts, <<>>, <<Pair(k, v)>>)

\* InfluxLine::try_new
TryNew ==
    /\ phase = "start"
    /\ \E m \in UncheckedNames, k \in UncheckedNames, v \in FieldValues :
          /\ line' = InfluxLine_try_new(m, k, v)
          /\ input' = <<>>
          /\ Constructed("try_new", NoParts, <<>>, <<Pair(k, v)>>)

\* InfluxLine::full
Full ==
    /\ phase = "start"
    /\ \E m \in MeasurementNames, t \in TagLists, f \in FieldLists,
          ts \in {None} \cup {Some(x) : x \in Timestamps} :
          /\ line' = InfluxLine_full(m, t, f, ts)
          /\ input' = <<>>
          /\ Constructed("full", NoParts, t, f)

CanBuild == phase = "build" /\ line.ok /\ nops < MaxOps

\* The bookkeeping of a builder call whose result is already in line'.
Built(op, tagPairs, fieldPairs) ==
    /\ prev' = line
    /\ nops' = nops + 1
    /\ last' = op
    /\ tagLog' = IF line'.ok THEN tagLog \o tagPairs ELSE tagLog
    /\ fieldLog' = IF line'.ok THEN fieldLog \o fieldPairs ELSE fieldLog
    /\ UNCHANGED <<origin, input, parts, other, out, back, phase>>

WithTag ==
    /\ CanBuild
    /\ \E a \in TagArgs :
          /\ line' = Ok(InfluxLine_with_tag(line.val, a.key, a.value))
          /\ Built("tag", <<a>>, <<>>)

TryWithTag ==
    /\ CanBuild
    /\ \E a \in UncheckedTagArgs :
          /\ line' = InfluxLine_try_with_tag(line.val, a.key, a.value)
          /\ Built("tag", <<a>>, <<>>)

WithField ==
    /\ CanBuild
    /\ \E a \in FieldArgs :
          /\ line' = Ok(InfluxLine_with_field(line.val, a.key, a.value))
          /\ Built("field", <<>>, <<a>>)

TryWithField ==
    /\ CanBuild
    /\ \E a \in UncheckedFieldArgs :
          /\ line' = InfluxLine_try_with_field(line.val, a.key, a.value)
          /\ Built("field", <<>>, <<a>>)

WithTimestamp ==
    /\ CanBuild
    /\ \E t \in Timestamps :
          /\ line' = Ok(InfluxLine_with_timestamp(line.val, t))
          /\ Built("timestamp", <<>>, <<>>)

TryWithTimestamp ==
    /\ CanBuild
    /\ \E c \in {None} \cup {Some(x) : x \in Timestamps} :
          /\ line' = InfluxLine_try_with_timestamp(line.val, c)
          /\ Built("timestamp", <<>>, <<>>)

\* line.to_string()
Display ==
    /\ phase = "build" /\ line.ok
    /\ out' = Some(InfluxLine_fmt(line.val))
    /\ phase' = "shown"
    /\ UNCHANGED <<line, origin, input, parts, tagLog, fieldLog, other, back, nops, prev, last>>

\* InfluxLine::from_str(line.to_string())
Reparse ==
    /\ phase = "shown"
    /\ back' = InfluxLine_from_str(out.v)
    /\ phase' = "done"
    /\ UNCHANGED <<line, origin, input, parts, tagLog, fieldLog, other, out, nops, prev, last>>

\* InfluxLine::full on the components of `line`, each set handed over in the
\* same or in the opposite order.
FullReordered ==
    /\ phase = "build" /\ line.ok
    /\ \E rt \in BOOLEAN, rf \in BOOLEAN :
          other' = InfluxLine_full(line.val.measurement,
                                   IF rt THEN Reverse(line.val.tags) ELSE line.val.tags,
                                   IF rf THEN Reverse(line.val.fields) ELSE line.val.fields,
                                   line.val.timestamp)
    /\ phase' = "paired"
    /\ UNCHANGED <<line, origin, input, parts, tagLog, fieldLog, out, back, nops, prev, last>>

\* InfluxLine::from_str on the text of the same segments, the tag pairs and the
\* field pairs each in the same or in the opposite order.
FromStrReordered ==
    /\ phase = "build" /\ line.ok /\ parts.known /\ nops = 0
    /\ \E rt \in BOOLEAN, rf \in BOOLEAN :
          other' = InfluxLine_from_str(Assemble(
                       [parts EXCEPT !.tags = IF rt THEN Reverse(@) ELSE @,
                                     !.fields = IF rf THEN Reverse(@) ELSE @]))
    /\ phase' = "paired"
    /\ UNCHANGED <<line, origin, input, parts, tagLog, fieldLog, out, back, nops, prev, last>>

\* InfluxLine::from_str on the text `line` was parsed from, followed by one
\* newline character.
FromStrNewline ==
    /\ phase = "build" /\ line.ok /\ origin = "from_str" /\ nops = 0
    /\ \A k \in 1..Len(input) : input[k] # NL
    /\ other' = InfluxLine_from_str(input \o <<NL>>)
    /\ phase' = "newline"
    /\ UNCHANGED <<line, origin, input, parts, tagLog, fieldLog, out, back, nops, prev, last>>

Next ==
    \/ FromStr \/ FromStrOdd \/ New \/ TryNew \/ Full
    \/ WithTag \/ TryWithTag \/ WithField \/ TryWithField
    \/ WithTimestamp \/ TryWithTimestamp
    \/ Display \/ Reparse \/ FullReordered \/ FromStrReordered \/ FromStrNewline

Spec == Init /\ [][Next]_vars

-----------------------------------------------------------------------------
(* The codec specification: one decoder, constructor or formatter applied to *)
(* one text.  It shares the variables of the line specification: `input` is  *)
(* the text, `last` the type the operation belongs to, `origin` the way the  *)
(* value was obtained, `line` the result of the operation, `out` the text    *)
(* written for the value, `back` the result of decoding `out`.               *)

\* Longest text over the characters of names.
MaxNameLen == 4
\* Longest text over the characters of numbers.
MaxValueLen == 3
\* Longest interior of a quoted text.
MaxInteriorLen == 3

TextsUpTo(alphabet, n) == UNION {[1..k -> alphabet] : k \in 0..n}

NameTexts == TextsUpTo({"a", BS, COMMA, SP, EQ, US}, MaxNameLen)

ValueTexts == TextsUpTo({"1", "0", "-", "+", "i", "u", ".", SP}, MaxValueLen)

QuotedTexts ==
    {<<DQ>> \o t \o <<DQ>> : t \in TextsUpTo({"a", BS, DQ, E_ACUTE}, MaxInteriorLen)}

\* The limits of the 64-bit types with a suffix, the Boolean spellings and
\* their neighbours, the float words, unclosed quotes.
LiteralTexts ==
    { I64_MAX \o <<"i">>, I64_MIN_MAG \o <<"i">>, <<"-">> \o I64_MIN_MAG \o <<"i">>,
      <<"-">> \o U64_MAX \o <<"i">>, I64_MAX \o <<"u">>, I64_MIN_MAG \o <<"u">>,
      U64_MAX \o <<"u">>, U64_MAX \o <<"i">>,
      Take(U64_MAX, 19) \o <<"6", "u">>, <<"-">> \o I64_MIN_MAG \o <<"u">>,
      <<"t">>, <<"T">>, <<"t","r","u","e">>, <<"T","r","u","e">>, <<"T","R","U","E">>,
      <<"f">>, <<"F">>, <<"f","a","l","s","e">>, <<"F","a","l","s","e">>,
      <<"F","A","L","S","E">>,
      <<"t","R","U","E">>, <<"t","r","u">>, <<"f","A","L","S","E">>, <<"y">>,
      <<"t","r","u","e"," ">>, <<"0">>,
      <<"i","n","f">>, <<"-","i","n","f">>, <<"N","a","N">>, <<"n","a","n">>,
      <<"1",".","5","i">>, <<"1","2","i">>, <<"1","2","u">>, <<"a","i">>,
      <<DQ, "a">>, <<"a", DQ>>, <<DQ, "1", "i", DQ>>,
      I64_MAX, I64_MIN_MAG, <<"-">> \o I64_MIN_MAG,
      <<"-">> \o Take(I64_MIN_MAG, 18) \o <<"9">>, <<"+">> \o I64_MAX, U64_MAX,
      <<"1", "2", "3">>, <<"1", "2", "3", "i">>, <<"1", "2", "8", ".", "0">>,
      <<"0", "0", "7">>, <<"1", "e", "3">> }

CodecTexts == NameTexts \cup ValueTexts \cup QuotedTexts \cup LiteralTexts

\* The special-character sets of the three escaped types.
SpecialSets ==
    [KeyName |-> KeyName_SPECIAL_CHARACTERS,
     MeasurementName |-> MeasurementName_SPECIAL_CHARACTERS,
     QuotedString |-> QuotedString_SPECIAL_CHARACTERS]

StrayPolicy == [KeyName |-> "Allow", MeasurementName |-> "Allow", QuotedString |-> "Forbid"]

\* The text of a line in which `name` stands in one role, all else plain.
LineWithName(role, name) ==
    CASE role = "measurement" -> name \o <<SP, "f", EQ, "1">>
      [] role = "tag key" -> <<"m", COMMA>> \o name \o <<EQ, "v", SP, "f", EQ, "1">>
      [] role = "tag value" -> <<"m", COMMA, "k", EQ>> \o name \o <<SP, "f", EQ, "1">>
      [] role = "field key" -> <<"m", SP>> \o name \o <<EQ, "1">>

CodecInit ==
    /\ input \in CodecTexts
    /\ line = NoLine
    /\ origin = "none"
    /\ parts = NoParts
    /\ tagLog = <<>>
    /\ fieldLog = <<>>
    /\ other = NoLine
    /\ out = None
    /\ back = NoLine
    /\ nops = 0
    /\ prev = NoLine
    /\ last = "none"
    /\ phase = "start"

\* The bookkeeping of an operation on `input` whose result is already in line'.
Applied(type, how) ==
    /\ phase = "start"
    /\ last' = type
    /\ origin' = how
    /\ phase' = "parsed"
    /\ UNCHANGED <<input, parts, tagLog, fieldLog, other, out, back, nops, prev>>

\* The escape engine alone, with the set and the policy of one of the types.
EngineDecode ==
    \E type \in DOMAIN SpecialSets :
        /\ Applied("LinearParser", type)
        /\ line' = decode(SpecialSets[type], BS, StrayPolicy[type], input)

KeyNameNew ==
    /\ Applied("KeyName", "new")
    /\ line' = KeyName_new(input)

KeyNameFromStr ==
    /\ Applied("KeyName", "from_str")
    /\ line' = KeyName_from_str(input)

MeasurementNameTryFrom ==
    /\ Applied("MeasurementName", "try_from")
    /\ line' = MeasurementName_try_from(input)

MeasurementNameFromStr ==
    /\ Applied("MeasurementName", "from_str")
    /\ line' = MeasurementName_from_str(input)

BooleanFromStr ==
    /\ Applied("Boolean", "from_str")
    /\ line' = Boolean_from_str(input)

InfluxIntegerFromStr ==
    /\ Applied("InfluxInteger", "from_str")
    /\ line' = InfluxInteger_from_str(input)

InfluxUIntegerFromStr ==
    /\ Applied("InfluxUInteger", "from_str")
    /\ line' = InfluxUInteger_from_str(input)

QuotedStringFromStr ==
    /\ Applied("QuotedString", "from_str")
    /\ line' = QuotedString_from_str(input)

\* QuotedString::new: the string holding the text.
QuotedStringNew ==
    /\ Applied("QuotedString", "new")
    /\ line' = Ok(input)

TimestampFromStr ==
    /\ Applied("Timestamp", "from_str")
    /\ line' = Timestamp_from_str(input)

\* InfluxLine::from_str on a line that holds the text as its trailing segment.
LineFromTimestamp ==
    /\ Applied("InfluxLine timestamp", "from_str")
    /\ line' = InfluxLine_from_str(<<"m", SP, "f", EQ, "1", SP>> \o input)

InfluxValueFromStr ==
    /\ Applied("InfluxValue", "from_str")
    /\ line' = InfluxValue_from_str(input)

\* impl From<&str> for InfluxValue: the String variant holding the text.
InfluxValueFrom ==
    /\ Applied("InfluxValue", "from")
    /\ line' = Ok(VString(input))

\* InfluxLine::from_str on a line that holds the text as one of its names.
LineFromName ==
    \E role \in {"measurement", "tag key", "tag value", "field key"} :
        /\ Applied("InfluxLine", role)
        /\ line' = InfluxLine_from_str(LineWithName(role, input))

\* LinearFormatter::chars on the text, with the set of one of the types.
EscapeChars ==
    /\ phase = "start"
    /\ \E type \in DOMAIN SpecialSets :
          /\ out' = Some(LinearFormatter_chars(SpecialSets[type], BS, input))
          /\ origin' = type
    /\ last' = "LinearFormatter"
    /\ phase' = "shown"
    /\ UNCHANGED <<line, input, parts, tagLog, fieldLog, other, back, nops, prev>>

Formatted == {"KeyName", "MeasurementName", "Boolean", "QuotedString", "InfluxValue"}

\* value.to_string()
WriteText ==
    /\ phase = "parsed" /\ line.ok /\ last \in Formatted
    /\ out' = Some(CASE last = "KeyName" -> KeyName_fmt(line.val)
                     [] last = "MeasurementName" -> MeasurementName_fmt(line.val)
                     [] last = "Boolean" -> Boolean_fmt(line.val)
                     [] last = "QuotedString" -> QuotedString_fmt(line.val)
                     [] last = "InfluxValue" -> InfluxValue_fmt(line.val))
    /\ phase' = "shown"
    /\ UNCHANGED <<line, origin, input, parts, tagLog, fieldLog, other, back, nops, prev, last>>

\* from_str of the type on the text written for the value.
FromStrAgain ==
    /\ phase = "shown" /\ last \in Formatted
    /\ back' = CASE last = "KeyName" -> KeyName_from_str(out.v)
                 [] last = "MeasurementName" -> MeasurementName_from_str(out.v)
                 [] last = "Boolean" -> Boolean_from_str(out.v)
                 [] last = "QuotedString" -> QuotedString_from_str(out.v)
                 [] last = "InfluxValue" -> InfluxValue_from_str(out.v)
    /\ phase' = "done"
    /\ UNCHANGED <<line, origin, input, parts, tagLog, fieldLog, other, out, nops, prev, last>>

CodecNext ==
    \/ EngineDecode \/ EscapeChars
    \/ KeyNameNew \/ KeyNameFromStr \/ MeasurementNameTryFrom \/ MeasurementNameFromStr
    \/ BooleanFromStr \/ InfluxIntegerFromStr \/ InfluxUIntegerFromStr
    \/ QuotedStringFromStr \/ QuotedStringNew \/ InfluxValueFromStr \/ InfluxValueFrom
    \/ TimestampFromStr \/ LineFromTimestamp
    \/ LineFromName \/ WriteText \/ FromStrAgain

CodecSpec == CodecInit /\ [][CodecNext]_vars

-----------------------------------------------------------------------------
(* The tokenizer, one scanner call at a time: line/parsing/mod.rs *)

\* In this specification `input` is the line, `phase` the position of
\* LinearLineParser::process, `parts` the raw segments found so far, `out` the
\* tail still to be read, `prev` the tail handed to the last scanner, `other`
\* what that scanner returned, `last` its name, `nops` the number of scanner
\* calls and `line` the result of process once it has returned.

MaxTailLen == 4

TailTexts == TextsUpTo({"a", BS, COMMA, SP, EQ, DQ}, MaxTailLen)

\* What stands before the text under scan, so that every scanner meets it.
Lead ==
    [measurement |-> <<>>,
     tag |-> <<"m", COMMA>>,
     tagvalue |-> <<"m", COMMA, "k", EQ>>,
     field |-> <<"m", SP>>,
     fieldvalue |-> <<"m", SP, "k", EQ>>]

\* Whole lines with several tags, several fields and a timestamp, lines with a
\* two-byte character in a quoted value and lines with a newline.
WholeLines ==
    { <<"m", COMMA, "k", EQ, "v", COMMA, "l", EQ, "w", SP, "f", EQ, "1", COMMA,
        "g", EQ, DQ, "s", SP, COMMA, BS, DQ, DQ, COMMA, "h", EQ, "t", SP, "5">>,
      <<"m", BS, COMMA, "x", COMMA, "k", BS, EQ, EQ, "v", BS, SP, "w", SP,
        "f", BS, SP, "g", EQ, DQ, DQ, SP, "-", "5">>,
      <<"m", COMMA, "k", EQ, "v", COMMA, "l", EQ, "w">>,
      <<"m", COMMA, "k", EQ, "v", SP, "f", EQ, "1", COMMA, "k", EQ, "v", SP, "5", SP, "6">>,
      <<"m", SP, "f", EQ, "1", COMMA, "g", EQ, "2", COMMA, "h", EQ, "3">>,
      <<"m", SP, "f", EQ, DQ, E_ACUTE, DQ>>,
      <<"m", SP, "f", EQ, DQ, E_ACUTE, BS, DQ>>,
      <<"m", SP, "f", EQ, "1", NL>>,
      <<"m", SP, "f", EQ, NL>>,
      <<"m", SP, "f", EQ, "1", NL, "z">>,
      <<"m", COMMA, "k", EQ, "v", SP, "f", EQ, "1", NL, COMMA, "g", EQ, "2", SP, "5">> }

TokenInit ==
    /\ \E role \in DOMAIN Lead \cup {"line"} :
          /\ origin = role
          /\ input \in IF role = "line" THEN WholeLines
                       ELSE {Lead[role] \o text : text \in TailTexts}
    /\ out = Some(input)
    /\ line = NoLine
    /\ parts = NoParts
    /\ tagLog = <<>>
    /\ fieldLog = <<>>
    /\ other = NoLine
    /\ back = NoLine
    /\ nops = 0
    /\ prev = None
    /\ last = "none"
    /\ phase = "ParsingMeasurement"

\* The bookkeeping of a scanner call on the tail.
Scanned(scanner, result) ==
    /\ last' = scanner
    /\ prev' = out
    /\ other' = result
    /\ nops' = nops + 1
    /\ UNCHANGED <<origin, input, tagLog, fieldLog, back>>

\* process returns the error of a scanner.
Failed(result) ==
    /\ line' = result
    /\ phase' = "Error"
    /\ out' = None
    /\ UNCHANGED parts

\* process returns the RawLine.
Returned(raw) ==
    /\ line' = Ok([measurement |-> raw.measurement, tags |-> raw.tags,
                   fields |-> raw.fields, timestamp |-> raw.timestamp])
    /\ phase' = "Done"
    /\ out' = None
    /\ parts' = raw

\* MeasurementParser::new().process(line)?
ScanMeasurement ==
    /\ phase = "ParsingMeasurement"
    /\ LET r == Bind(MeasurementParser_process(out.v), LAMBDA x : x) IN
       /\ Scanned("MeasurementParser", r)
       /\ IF ~r.ok THEN Failed(r)
          ELSE /\ parts' = [parts EXCEPT !.known = TRUE, !.measurement = r.val.measurement]
               /\ out' = Some(r.val.tail.rest)
               /\ phase' = IF r.val.tail.kind = "Tags" THEN "ParsingTags"
                           ELSE "ParsingFields"
               /\ UNCHANGED line

\* A tag loop that forgets to move on to the remaining tags: the property of
\* C30 does not survive it.
ScanTag_again ==
    /\ phase = "ParsingTags"
    /\ LET r == Bind(TagParser_process(out.v), LAMBDA x : x) IN
       /\ Scanned("TagParser", r)
       /\ IF ~r.ok THEN Failed(r)
          ELSE /\ parts' = [parts EXCEPT !.tags = Append(@, r.val.pair)]
               /\ out' = IF r.val.tail.kind = "Tag" THEN out ELSE Some(r.val.tail.rest)
               /\ phase' = IF r.val.tail.kind = "Tag" THEN "ParsingTags"
                           ELSE "ParsingFields"
               /\ UNCHANGED line

\* One turn of the loop of parse_tags.
ScanTag ==
    /\ phase = "ParsingTags"
    /\ LET r == Bind(TagParser_process(out.v), LAMBDA x : x) IN
       /\ Scanned("TagParser", r)
       /\ IF ~r.ok THEN Failed(r)
          ELSE /\ parts' = [parts EXCEPT !.tags = Append(@, r.val.pair)]
               /\ out' = Some(r.val.tail.rest)
               /\ phase' = IF r.val.tail.kind = "Tag" THEN "ParsingTags"
                           ELSE "ParsingFields"
               /\ UNCHANGED line

\* A field loop that tests for the end of the text before its first turn: the
\* property of C28 does not survive it.
ScanField_while ==
    /\ phase = "ParsingFields"
    /\ LET r == Bind(FieldParser_process(out.v), LAMBDA x : x) IN
       /\ Scanned("FieldParser", r)
       /\ IF out.v = <<>> THEN Returned(parts)
          ELSE IF ~r.ok THEN Failed(r)
          ELSE IF r.val.tail.kind = "Field"
          THEN /\ parts' = [parts EXCEPT !.fields = Append(@, r.val.pair)]
               /\ out' = Some(r.val.tail.rest)
               /\ phase' = "ParsingFields"
               /\ UNCHANGED line
          ELSE Returned([parts EXCEPT
                   !.fields = Append(@, r.val.pair),
                   !.timestamp = IF r.val.tail.kind = "Timestamp"
                                 THEN Some(r.val.tail.rest) ELSE None])

\* One turn of the loop of parse_fields; the loop ends with the timestamp, if
\* any, and process returns.
ScanField ==
    /\ phase = "ParsingFields"
    /\ LET r == Bind(FieldParser_process(out.v), LAMBDA x : x) IN
       /\ Scanned("FieldParser", r)
       /\ IF ~r.ok THEN Failed(r)
          ELSE IF r.val.tail.kind = "Field"
          THEN /\ parts' = [parts EXCEPT !.fields = Append(@, r.val.pair)]
               /\ out' = Some(r.val.tail.rest)
               /\ phase' = "ParsingFields"
               /\ UNCHANGED line
          ELSE Returned([parts EXCEPT
                   !.fields = Append(@, r.val.pair),
                   !.timestamp = IF r.val.tail.kind = "Timestamp"
                                 THEN Some(r.val.tail.rest) ELSE None])

TokenNext == ScanMeasurement \/ ScanTag \/ ScanField

TokenSpec == TokenInit /\ [][TokenNext]_vars

\* The loops of process run on until it returns.
TokenFairSpec == TokenSpec /\ WF_vars(TokenNext)

-----------------------------------------------------------------------------
(* Properties *)

\* Every InfluxLine value a state holds.
Lines == {x \in {line, prev, other, back} : x.ok}

Keys(storage) == [k \in 1..Len(storage) |-> storage[k].key]

Distinct(seq) == \A i, j \in 1..Len(seq) : seq[i] = seq[j] => i = j

HasKey(pairs, key) == \E i \in 1..Len(pairs) : pairs[i].key = key

\* The value of the last pair of a list of insertions that names the key.
LastValue(log, key) ==
    log[CHOOSE i \in 1..Len(log) :
            /\ log[i].key = key
            /\ \A j \in (i + 1)..Len(log) : log[j].key # key].value

\* The positions of a list of insertions at which a key appears for the first time.
FirstPositions(log) ==
    {i \in 1..Len(log) : \A j \in 1..(i - 1) : log[j].key # log[i].key}

\* What a list of insertions leaves behind under upsert: each distinct key once,
\* in the order of its first insertion, with the value of its last insertion.
Upserted(log) ==
    [n \in 1..Cardinality(FirstPositions(log)) |->
        LET i == CHOOSE i \in FirstPositions(log) :
                     Cardinality({j \in FirstPositions(log) : j <= i}) = n
        IN Pair(log[i].key, LastValue(log, log[i].key))]

\* A key that no input of the model inserts.
AbsentKey == <<"z">>

RECURSIVE Join(_, _)
Join(texts, separator) ==
    IF texts = <<>> THEN <<>>
    ELSE IF Len(texts) = 1 THEN Head(texts)
    ELSE Head(texts) \o separator \o Join(Tail(texts), separator)

\* Two storages hold the same key-to-value mapping: unique keys, the same keys,
\* and for every key values that compare equal under eq.
SameMapping(a, b, eq(_, _)) ==
    /\ Distinct(Keys(a)) /\ Distinct(Keys(b))
    /\ \A i \in 1..Len(a) : HasKey(b, a[i].key)
    /\ \A i \in 1..Len(b) : HasKey(a, b[i].key)
    /\ \A i \in 1..Len(a) :
          eq(a[i].value, KeyValueStorage_get(b, a[i].key).v)

Same(x, y) == x = y

\* C1: a record parsed from a text, written with to_string and parsed again, is
\* parsed successfully and the result equals the record.
C1_LineRoundTrip ==
    (phase = "done" /\ origin = "from_str" /\ nops = 0)
        => (back.ok /\ InfluxLine_eq(back.val, line.val))

\* C2: for a record from parsing or from the builder, parsing its to_string
\* succeeds and formatting the result gives the same text again.
C2_IdempotentFormatting ==
    phase = "done" => (back.ok /\ InfluxLine_fmt(back.val) = out.v)

\* C3: every line that full, new, try_new or from_str returns, and every line the
\* builder calls make of it, holds at least one field; full with an empty field
\* iterator returns NoFields.
C3_FieldsNonEmpty ==
    /\ \A x \in Lines : Len(x.val.fields) >= 1
    /\ (origin = "full" /\ fieldLog = <<>>) => line = Err("NoFields")

\* C3's case: full was called with an empty field iterator.
C3_FullRejectedEmptyFields ==
    origin = "full" /\ fieldLog = <<>> /\ tagLog # <<>> /\ line = Err("NoFields")

\* C4: after any sequence of with_tag and with_field calls the tags and the fields
\* iterate each distinct key once, in the order of first insertion, with the most
\* recent value; tag(k) and field(k) return that value, None for a key never
\* inserted; overwriting a key keeps the keys and their order.
C4_UpsertOrder ==
    (phase = "build" /\ line.ok) =>
        /\ line.val.tags = Upserted(tagLog)
        /\ line.val.fields = Upserted(fieldLog)
        /\ \A i \in 1..Len(tagLog) :
              InfluxLine_tag(line.val, tagLog[i].key)
                  = Some(LastValue(tagLog, tagLog[i].key))
        /\ \A i \in 1..Len(fieldLog) :
              InfluxLine_field(line.val, fieldLog[i].key)
                  = Some(LastValue(fieldLog, fieldLog[i].key))
        /\ InfluxLine_tag(line.val, AbsentKey) = None
        /\ InfluxLine_field(line.val, AbsentKey) = None
        /\ (nops > 0 /\ last = "tag" /\ HasKey(prev.val.tags, tagLog[Len(tagLog)].key))
              => Keys(line.val.tags) = Keys(prev.val.tags)
        /\ (nops > 0 /\ last = "field"
                /\ HasKey(prev.val.fields, fieldLog[Len(fieldLog)].key))
              => Keys(line.val.fields) = Keys(prev.val.fields)

\* C5: in every line the tag keys are pairwise distinct and the field keys are
\* pairwise distinct.
C5_KeysUnique ==
    \A x \in Lines : Distinct(Keys(x.val.tags)) /\ Distinct(Keys(x.val.fields))

\* C6: two lines with equal measurement, equal timestamp and the same key-to-value
\* mapping of tags and of fields compare equal, whatever the order of the keys.
C6_EqualityOrderIndependent ==
    (/\ phase = "paired" /\ other.ok
     /\ line.val.measurement = other.val.measurement
     /\ line.val.timestamp = other.val.timestamp
     /\ SameMapping(line.val.tags, other.val.tags, Same)
     /\ SameMapping(line.val.fields, other.val.fields, InfluxValue_eq))
        => InfluxLine_eq(line.val, other.val)

\* C7: the text to_string writes starts with the measurement as MeasurementName's
\* own Display writes it, every comma and space escaped, and the first tag or the
\* fields follow it.
C7_MeasurementEscaped ==
    out.some =>
        LET m == MeasurementName_fmt(line.val.measurement) IN
        /\ Len(out.v) > Len(m)
        /\ Take(out.v, Len(m)) = m
        /\ out.v[Len(m) + 1] \in {COMMA, SP}

\* The texts of the pairs of a line as the layout names them.
TagTexts(self) ==
    [k \in 1..Len(self.tags) |->
        KeyName_fmt(self.tags[k].key) \o <<EQ>> \o KeyName_fmt(self.tags[k].value)]

FieldTexts(self) ==
    [k \in 1..Len(self.fields) |->
        KeyName_fmt(self.fields[k].key) \o <<EQ>> \o InfluxValue_fmt(self.fields[k].value)]

C9_TrailingNewlineTolerated ==
    phase = "newline" => other = line

\* C10: a parsed line holds the decoded segments of its text: the unescaped
\* measurement, the tags and the fields in the order of the text with unescaped
\* keys and typed values, and the trailing integer as timestamp, None without one.
C10_ParsePreservesOrder ==
    (origin = "from_str" /\ parts.known /\ line.ok /\ nops = 0) =>
        /\ line.val.measurement = MeasurementName_from_str(parts.measurement).val
        /\ Len(line.val.tags) = Len(parts.tags)
        /\ \A k \in 1..Len(parts.tags) :
              /\ line.val.tags[k].key = KeyName_from_str(parts.tags[k].key).val
              /\ line.val.tags[k].value = KeyName_from_str(parts.tags[k].value).val
        /\ Len(line.val.fields) = Len(parts.fields)
        /\ \A k \in 1..Len(parts.fields) :
              /\ line.val.fields[k].key = KeyName_from_str(parts.fields[k].key).val
              /\ line.val.fields[k].value = InfluxValue_from_str(parts.fields[k].value).val
        /\ line.val.timestamp
              = IF parts.timestamp.some
                THEN Some(Timestamp_from_str(parts.timestamp.v).val) ELSE None

\* C10's case: a text with escaped tags, several fields and a timestamp was parsed.
C10_ParsedEscapedLine ==
    /\ origin = "from_str" /\ parts.known /\ line.ok /\ nops = 0
    /\ Len(parts.tags) = 2 /\ parts.tags[2].key # line.val.tags[2].key
    /\ Len(parts.fields) = 2 /\ parts.timestamp.some
    /\ parts.measurement # line.val.measurement

\* The decoders of the field value types in the order of resolution, applied to
\* `input`, and the variants they stand for.
Resolution ==
    << [variant |-> "Float", result |-> parse_f64(input)],
       [variant |-> "Integer", result |-> InfluxInteger_from_str(input)],
       [variant |-> "UInteger", result |-> InfluxUInteger_from_str(input)],
       [variant |-> "Boolean", result |-> Boolean_from_str(input)],
       [variant |-> "String", result |-> QuotedString_from_str(input)] >>

\* What a variant of InfluxValue holds.
Payload(v) ==
    CASE v.type = "Float" -> v
      [] v.type \in {"Integer", "UInteger"} -> [neg |-> v.neg, digits |-> v.digits]
      [] v.type = "Boolean" -> v.b
      [] v.type = "String" -> v.s

\* C11: InfluxValue::from_str returns the variant of the first of Float, Integer,
\* UInteger, Boolean, QuotedString whose decoder accepts the text, with the value
\* that decoder gives, and BadValue if none accepts it.
C11_ResolutionOrder ==
    (last = "InfluxValue" /\ origin = "from_str") =>
        IF \E k \in 1..5 : Resolution[k].result.ok
        THEN LET first == CHOOSE k \in 1..5 :
                              /\ Resolution[k].result.ok
                              /\ \A j \in 1..(k - 1) : ~Resolution[j].result.ok
             IN /\ line.ok
                /\ line.val.type = Resolution[first].variant
                /\ Payload(line.val) = Resolution[first].result.val
        ELSE line = Err("BadValue")

\* C11's case: a text that only a later decoder accepts was resolved.
C11_ResolvedLateVariant ==
    /\ last = "InfluxValue" /\ origin = "from_str"
    /\ line.ok /\ line.val.type = "Boolean" /\ input = <<"F">>

\* The text of an integer as Display writes it: digits without a leading zero,
\* a minus sign only before a number other than zero.
IsDecimal(t) ==
    /\ t # <<>> /\ AllDigits(t)
    /\ (Len(t) > 1 => Head(t) # "0")

IsSignedNumeral(t) ==
    \/ IsDecimal(t) /\ MagLE(t, I64_MAX)
    \/ /\ t # <<>> /\ Head(t) = "-" /\ IsDecimal(Tail(t)) /\ Tail(t) # <<"0">>
       /\ MagLE(Tail(t), I64_MIN_MAG)

IsUnsignedNumeral(t) == IsDecimal(t) /\ MagLE(t, U64_MAX)

\* The number a numeral names.
Numeral(t) ==
    IF Head(t) = "-" THEN [neg |-> TRUE, digits |-> Tail(t)]
    ELSE [neg |-> FALSE, digits |-> t]

\* C12: the text of a signed 64-bit integer N followed by i resolves to
\* Integer(N), the text of an unsigned one followed by u to UInteger(N), and the
\* float grammar accepts neither text.
C12_SuffixExclusivity ==
    (last = "InfluxValue" /\ origin = "from_str" /\ input # <<>>) =>
        LET numeral == Take(input, Len(input) - 1)
            suffix == input[Len(input)]
        IN /\ (suffix = "i" /\ IsSignedNumeral(numeral)) =>
                  /\ line = Ok(VInteger(Numeral(numeral)))
                  /\ ~parse_f64(input).ok
           /\ (suffix = "u" /\ IsUnsignedNumeral(numeral)) =>
                  /\ line = Ok(VUInteger(Numeral(numeral)))
                  /\ ~parse_f64(input).ok

\* C12's case: the least signed integer with the suffix i was resolved.
C12_ResolvedLeastInteger ==
    /\ last = "InfluxValue" /\ origin = "from_str"
    /\ input = <<"-">> \o I64_MIN_MAG \o <<"i">> /\ line.ok

\* The texts str::parse takes for a 64-bit integer: an optional sign (no minus
\* sign for the unsigned type), then digits only, at least one, in range.
IsParsableSigned(t) ==
    LET digits == IF t # <<>> /\ Head(t) \in {"+", "-"} THEN Tail(t) ELSE t IN
    /\ digits # <<>> /\ AllDigits(digits)
    /\ MagLE(StripZeros(digits),
             IF Head(t) = "-" THEN I64_MIN_MAG ELSE I64_MAX)

IsParsableUnsigned(t) ==
    LET digits == IF t # <<>> /\ Head(t) = "+" THEN Tail(t) ELSE t IN
    /\ digits # <<>> /\ AllDigits(digits)
    /\ MagLE(StripZeros(digits), U64_MAX)

\* C13: the Integer decoder accepts a text exactly if its last character is i
\* and what precedes it is a signed 64-bit integer, the UInteger decoder exactly
\* if its last character is u and what precedes it is an unsigned 64-bit
\* integer; every other text gives IntegerNotParsed resp. UIntegerNotParsed.
C13_SuffixedIntegerDecoders ==
    /\ last = "InfluxInteger" =>
          IF input # <<>> /\ input[Len(input)] = "i"
             /\ IsParsableSigned(Take(input, Len(input) - 1))
          THEN line.ok ELSE line = Err("IntegerNotParsed")
    /\ last = "InfluxUInteger" =>
          IF input # <<>> /\ input[Len(input)] = "u"
             /\ IsParsableUnsigned(Take(input, Len(input) - 1))
          THEN line.ok ELSE line = Err("UIntegerNotParsed")

\* C13's case: a text with a character after the suffix was rejected.
C13_RejectedTextAfterSuffix ==
    /\ last = "InfluxInteger" /\ input = <<"1", "i", "1">>
    /\ line = Err("IntegerNotParsed")

\* C14: the Boolean decoder accepts exactly t, T, true, True, TRUE as true and
\* f, F, false, False, FALSE as false; the text written for a Boolean is true or
\* false, and decodes to the same Boolean.
C14_BooleanSpellings ==
    last = "Boolean" =>
        /\ line.ok <=> input \in {<<"t">>, <<"T">>, <<"t","r","u","e">>, <<"T","r","u","e">>,
                                  <<"T","R","U","E">>, <<"f">>, <<"F">>,
                                  <<"f","a","l","s","e">>, <<"F","a","l","s","e">>,
                                  <<"F","A","L","S","E">>}
        /\ line.ok => (line.val <=> Head(input) \in {"t", "T"})
        /\ out.some => out.v = IF line.val THEN <<"t","r","u","e">>
                               ELSE <<"f","a","l","s","e">>
        /\ phase = "done" => back = Ok(line.val)

\* C14's case: a spelling other than the canonical one was decoded and written.
C14_WroteCanonicalSpelling ==
    /\ last = "Boolean" /\ input = <<"F","A","L","S","E">>
    /\ phase = "done" /\ out.v = <<"f","a","l","s","e">>

\* C15: an Integer, UInteger, Boolean or String value, written and decoded by
\* InfluxValue::from_str, gives the same value of the same variant.
C15_ValueRoundTrip ==
    (last = "InfluxValue" /\ phase = "done" /\ line.val.type # "Float") =>
        back = Ok(line.val)

\* The naming restriction: names that must not exist.
Restricted(name) == name = <<>> \/ Head(name) = US

\* A text without special characters and backslashes: it is its own decoding.
Plain(text) == \A k \in 1..Len(text) : text[k] \notin {BS, COMMA, SP, EQ}

\* The names held by a line.
NamesIn(l) ==
    {l.measurement}
        \cup {l.tags[k].key : k \in 1..Len(l.tags)}
        \cup {l.tags[k].value : k \in 1..Len(l.tags)}
        \cup {l.fields[k].key : k \in 1..Len(l.fields)}

\* No name that was obtained is empty or starts with the reserved prefix.
NoRestrictedName ==
    /\ (last \in {"KeyName", "MeasurementName"} /\ line.ok) => ~Restricted(line.val)
    /\ (last = "InfluxLine" /\ line.ok) => \A name \in NamesIn(line.val) : ~Restricted(name)

\* The constructors and the name decoders report a restricted name as such.
NamesReportRestriction ==
    (last \in {"KeyName", "MeasurementName"} /\ Plain(input) /\ Restricted(input)) =>
        line = Err("NameRestriction")

\* C16 as stated: no empty or reserved name is obtained, and the constructors,
\* the name decoders and the line parser all answer such a name with the
\* name-restriction error.
C16_RestrictionEverywhere ==
    /\ NoRestrictedName
    /\ NamesReportRestriction
    /\ (last = "InfluxLine" /\ Plain(input) /\ Restricted(input)) =>
           line = Err("NameRestriction")

\* C16 as amended: the same, except that the line parser answers an empty
\* measurement with NoMeasurement and an empty tag value with NoValue.
C16_RestrictionOrMissingSegment ==
    /\ NoRestrictedName
    /\ NamesReportRestriction
    /\ (last = "InfluxLine" /\ Plain(input) /\ Restricted(input)) =>
           line = Err(CASE input = <<>> /\ origin = "measurement" -> "NoMeasurement"
                        [] input = <<>> /\ origin = "tag value" -> "NoValue"
                        [] OTHER -> "NameRestriction")

\* C16's case: a line whose tag key starts with the reserved prefix was refused.
C16_RefusedReservedTagKey ==
    /\ last = "InfluxLine" /\ origin = "tag key" /\ input = <<US, "a">>
    /\ line = Err("NameRestriction")

\* The decoding of the names read off the text two characters at a time:
\* a backslash and the character after it are one unit.
RECURSIVE Tolerant(_, _)
Tolerant(specials, text) ==
    IF text = <<>> THEN Ok(<<>>)
    ELSE IF Head(text) \in specials THEN Err("SpecialCharacterNotEscaped")
    ELSE IF Head(text) # BS
         THEN Bind(Tolerant(specials, Tail(text)), LAMBDA rest :
                  IF rest.ok THEN Ok(<<Head(text)>> \o rest.val) ELSE rest)
    ELSE IF Len(text) = 1 THEN Err("TrailingEscapeCharacter")
    ELSE Bind(Tolerant(specials, Drop(text, 2)), LAMBDA rest :
             IF ~rest.ok THEN rest
             ELSE IF text[2] \in specials \cup {BS} THEN Ok(<<text[2]>> \o rest.val)
             ELSE Ok(<<BS, text[2]>> \o rest.val))

\* n backslashes.
Backslashes(n) == [k \in 1..n |-> BS]

\* C17: under the Allow policy of the names the engine fails on a bare special
\* character, turns a backslash and a special character into that character, two
\* backslashes into one, keeps a backslash before any other character together
\* with that character, and fails on a text that ends after an unconsumed
\* backslash; so 2k backslashes give k of them, and 2k+1 backslashes before an
\* ordinary character give k+1 of them and that character.
C17_TolerantEngine ==
    (last = "LinearParser" /\ origin \in {"KeyName", "MeasurementName"}) =>
        /\ line = Tolerant(SpecialSets[origin], input)
        /\ \A k \in 0..MaxNameLen :
              /\ input = Backslashes(2 * k) => line = Ok(Backslashes(k))
              /\ input = Backslashes(2 * k + 1) \o <<"a">> =>
                     line = Ok(Backslashes(k + 1) \o <<"a">>)
              /\ input = Backslashes(2 * k + 1) => line = Err("TrailingEscapeCharacter")

\* C17's case: three backslashes before an ordinary character were decoded.
C17_DecodedOddRun ==
    /\ last = "LinearParser" /\ origin = "KeyName"
    /\ input = <<BS, BS, BS, "a">> /\ line = Ok(<<BS, BS, "a">>)

\* The characters between the first and the last character of a text.
Interior(text) == SubSeq(text, 2, Len(text) - 1)

\* An interior the Forbid policy must refuse, read two characters at a time: it
\* holds a bare double quote, a backslash before a character other than a double
\* quote or a backslash, or it ends after an unconsumed backslash.
RECURSIVE Refused(_)
Refused(text) ==
    IF text = <<>> THEN FALSE
    ELSE IF Head(text) = DQ THEN TRUE
    ELSE IF Head(text) # BS THEN Refused(Tail(text))
    ELSE IF Len(text) = 1 THEN TRUE
    ELSE IF text[2] \notin {DQ, BS} THEN TRUE
    ELSE Refused(Drop(text, 2))

\* C18: QuotedString::from_str returns an error for a quoted text whose interior
\* holds a bare double quote, a backslash before a character other than a double
\* quote or a backslash, or ends after an unconsumed backslash.
C18_StrictEngine ==
    (/\ last = "QuotedString" /\ Len(input) >= 2
     /\ Head(input) = DQ /\ input[Len(input)] = DQ
     /\ Refused(Interior(input))) => ~line.ok

\* C19: the text written for a name that KeyName::from_str or
\* MeasurementName::from_str produced decodes to the same name.
C19_NameFormatLeftInverse ==
    (last \in {"KeyName", "MeasurementName"} /\ origin = "from_str" /\ phase = "done") =>
        back = Ok(line.val)

\* The number of characters of a set among the first k characters of a text.
CountIn(specials, text, k) == Cardinality({j \in 1..k : text[j] \in specials})

\* Where the k-th character of a text stands after one backslash was put before
\* every special character.
PlaceOf(specials, text, k) == k + CountIn(specials, text, k)

\* C20: the inverse escaper puts one backslash before every character of the
\* special set and alters nothing else: the text grows by the number of special
\* characters, every character stands where the inserted backslashes put it, a
\* special character right after its backslash, and a character outside the set
\* (a backslash too, when it is not in the set) right after its predecessor.
C20_InverseEscaper ==
    last = "LinearFormatter" =>
        LET specials == SpecialSets[origin] IN
        /\ Len(out.v) = Len(input) + CountIn(specials, input, Len(input))
        /\ \A k \in 1..Len(input) :
              /\ out.v[PlaceOf(specials, input, k)] = input[k]
              /\ input[k] \in specials => out.v[PlaceOf(specials, input, k) - 1] = BS
              /\ input[k] \notin specials =>
                     PlaceOf(specials, input, k) - 1 = PlaceOf(specials, input, k - 1)

\* C20's case: a name with a backslash and a comma was escaped.
C20_EscapedCommaOnly ==
    /\ last = "LinearFormatter" /\ origin = "KeyName"
    /\ input = <<"a", BS, COMMA>> /\ out.v = <<"a", BS, BS, COMMA>>

\* C21: the text written for QuotedString::new(S) decodes to the same string.
C21_QuotedStringRoundTrip ==
    (last = "QuotedString" /\ origin = "new" /\ phase = "done") => back = Ok(line.val)

\* C22: QuotedString::from_str answers a text of fewer than two characters, or
\* one that does not begin and end with a double quote, with NoQuoteDelimiter,
\* and otherwise hands the engine exactly the characters between the first and
\* the last one.
C22_InteriorHandedToEngine ==
    (last = "QuotedString" /\ origin = "from_str") =>
        IF Len(input) < 2 \/ Head(input) # DQ \/ input[Len(input)] # DQ
        THEN line = Err("NoQuoteDelimiter")
        ELSE /\ QuotedString_interior(input) = Interior(input)
             /\ line = decode(QuotedString_SPECIAL_CHARACTERS,
                              QuotedString_ESCAPE_CHARACTER, "Forbid", Interior(input))

\* C29: Timestamp::from_str accepts exactly the texts of a signed 64-bit
\* integer and answers every other text with TimestampNotParsed; a line whose
\* trailing segment is such a text carries that timestamp, and a line whose
\* trailing segment is any other text is rejected.
C29_TimestampDecoding ==
    /\ last = "Timestamp" =>
          IF IsParsableSigned(input)
          THEN /\ line.ok
               /\ line.val.neg = (Head(input) = "-" /\ line.val.digits # <<"0">>)
               /\ line.val.digits
                     = LET digits == StripZeros(IF Head(input) \in {"+", "-"}
                                                THEN Tail(input) ELSE input)
                       IN IF digits = <<>> THEN <<"0">> ELSE digits
          ELSE line = Err("TimestampNotParsed")
    /\ last = "InfluxLine timestamp" =>
          IF IsParsableSigned(input)
          THEN line.ok /\ line.val.timestamp = Some(Timestamp_from_str(input).val)
          ELSE ~line.ok

\* C29's case: a line with a float as trailing segment was rejected.
C29_RejectedFloatTimestamp ==
    /\ last = "InfluxLine timestamp" /\ input = <<"1", "2", "8", ".", "0">>
    /\ line = Err("TimestampNotParsed")

\* The place of the first character of `stops` in a text that no backslash
\* escapes, 0 if there is none: a backslash and the character after it are one
\* unit, as in the escape engine.
RECURSIVE FirstBare(_, _, _)
FirstBare(text, k, stops) ==
    IF k > Len(text) THEN 0
    ELSE IF text[k] = BS THEN FirstBare(text, k + 2, stops)
    ELSE IF text[k] \in stops THEN k
    ELSE FirstBare(text, k + 1, stops)

\* C23: the measurement slice ends at the first unescaped comma (tags follow) or
\* space (fields follow); a text that starts with one gives NoMeasurement and a
\* text without one gives NoWhitespaceDelimiter.
C23_MeasurementScan ==
    last = "MeasurementParser" =>
        LET text == prev.v
            stop == FirstBare(text, 1, {COMMA, SP})
        IN other = CASE stop = 0 -> Err("NoWhitespaceDelimiter")
                     [] stop = 1 -> Err("NoMeasurement")
                     [] OTHER -> Ok([measurement |-> Take(text, stop - 1),
                                     tail |-> Tail_(IF text[stop] = COMMA THEN "Tags"
                                                    ELSE "Fields",
                                                    Drop(text, stop))])

\* C24: InfluxLine::from_str of the empty text gives NoMeasurement.
C24_EmptyTextNoMeasurement ==
    (last = "from_str" /\ origin = "from_str" /\ input = <<>>) =>
        line = Err("NoMeasurement")

\* C25: the key of a tag pair ends at the first unescaped '='; an unescaped
\* comma or space before it gives UnescapedSpecialCharacter, no '=' at all gives
\* NoValue; the value then ends at the first unescaped comma (a tag pair
\* follows) or space (fields follow), and a text that ends inside the value
\* gives NoFields, which is then the answer for the whole line.
C25_TagPairScan ==
    last = "TagParser" =>
        LET text == prev.v
            keyStop == FirstBare(text, 1, {EQ, COMMA, SP})
            rest == Drop(text, keyStop)
            valueStop == FirstBare(rest, 1, {COMMA, SP})
        IN CASE keyStop = 0 -> other = Err("NoValue")
             [] keyStop > 0 /\ text[keyStop] # EQ ->
                    other = Err("UnescapedSpecialCharacter")
             [] keyStop > 0 /\ text[keyStop] = EQ /\ valueStop = 0 ->
                    other = Err("NoFields") /\ line = Err("NoFields")
             [] keyStop > 0 /\ text[keyStop] = EQ /\ valueStop = 1 -> ~other.ok
             [] OTHER ->
                    other = Ok([pair |-> [key |-> Take(text, keyStop - 1),
                                          value |-> Take(rest, valueStop - 1)],
                                tail |-> Tail_(IF rest[valueStop] = COMMA THEN "Tag"
                                               ELSE "Fields",
                                               Drop(rest, valueStop))])

\* The place of the first character of `stops` in a text, escaped or not, 0 if
\* there is none.
FirstOf(text, stops) ==
    IF \E k \in 1..Len(text) : text[k] \in stops
    THEN CHOOSE k \in 1..Len(text) :
             text[k] \in stops /\ \A j \in 1..(k - 1) : text[j] \notin stops
    ELSE 0

\* A pair scanner was handed a text whose key ends at an unescaped '='.
KeyFound(text) ==
    LET keyStop == FirstBare(text, 1, {EQ, COMMA, SP}) IN
    keyStop > 0 /\ text[keyStop] = EQ

\* What follows that '='.
ValueTail(text) == Drop(text, FirstBare(text, 1, {EQ, COMMA, SP}))

\* The pair a scanner returns for a key and a value.
Found(text, value, kind, rest) ==
    Ok([pair |-> [key |-> Take(text, FirstBare(text, 1, {EQ, COMMA, SP}) - 1),
                  value |-> value],
        tail |-> Tail_(kind, rest)])

\* A text without the one newline that may end a line.
WithoutFinalNewline(text) ==
    IF text # <<>> /\ text[Len(text)] = NL THEN Take(text, Len(text) - 1) ELSE text

\* C26: a field value that does not start with a double quote ends at the first
\* comma (a field follows), the first space (the timestamp follows) or the end
\* of the text (one newline that ends the line set aside), and a backslash in
\* it before that delimiter makes the scan and the whole parse fail with
\* UnexpectedEscapeSymbol.
C26_BareValueScan ==
    (/\ last = "FieldParser" /\ KeyFound(prev.v)
     /\ WithoutFinalNewline(ValueTail(prev.v)) # <<>>
     /\ Head(ValueTail(prev.v)) # DQ) =>
        LET rest == ValueTail(prev.v)
            text == WithoutFinalNewline(rest)
            stop == FirstOf(text, {COMMA, SP})
            escape == FirstOf(text, {BS})
        IN CASE escape > 0 /\ (stop = 0 \/ escape < stop) ->
                    other = Err("UnexpectedEscapeSymbol")
                        /\ line = Err("UnexpectedEscapeSymbol")
             [] escape = 0 /\ stop = 0 ->
                    other = Found(prev.v, text, "None", <<>>)
             [] stop = 1 -> ~other.ok
             [] OTHER ->
                    other = Found(prev.v, Take(rest, stop - 1),
                                  IF rest[stop] = COMMA THEN "Field" ELSE "Timestamp",
                                  Drop(rest, stop))

\* C26's case: a backslash before a space in a bare value was refused.
C26_RefusedEscapedSpace ==
    /\ last = "FieldParser" /\ prev.v = <<"k", EQ, "a", BS, SP, "a">>
    /\ line = Err("UnexpectedEscapeSymbol")

\* A backslash in a quoted text, before the place `stop` (0: anywhere), that
\* stands before a character other than a double quote or a backslash.
RECURSIVE StrayEscape(_, _, _)
StrayEscape(text, k, stop) ==
    IF k >= Len(text) \/ (stop > 0 /\ k >= stop) THEN FALSE
    ELSE IF text[k] # BS THEN StrayEscape(text, k + 1, stop)
    ELSE IF text[k + 1] \notin {BS, DQ} THEN TRUE
    ELSE StrayEscape(text, k + 2, stop)

\* C27: in a field value that starts with a double quote, commas and spaces
\* inside the quotes are not delimiters and an escaped quote does not close the
\* string; the value ends at the first unescaped closing quote, after which a
\* comma (a field follows), a space (the timestamp follows) or the end of the
\* text must come: any other character gives SymbolsAfterClosedString, and a
\* missing closing quote gives NoQuoteDelimiter.
C27_QuotedValueScan ==
    (/\ last = "FieldParser" /\ KeyFound(prev.v)
     /\ ValueTail(prev.v) # <<>> /\ Head(ValueTail(prev.v)) = DQ) =>
        LET rest == ValueTail(prev.v)
            close == FirstBare(rest, 2, {DQ})
        IN CASE StrayEscape(rest, 2, close) -> ~other.ok
             [] ~StrayEscape(rest, 2, close) /\ close = 0 ->
                    other = Err("NoQuoteDelimiter")
             [] ~StrayEscape(rest, 2, close) /\ close = Len(rest) /\ close > 0 ->
                    other = Found(prev.v, rest, "None", <<>>)
             [] OTHER ->
                    IF rest[close + 1] \in {COMMA, SP}
                    THEN other = Found(prev.v, Take(rest, close),
                                       IF rest[close + 1] = COMMA THEN "Field"
                                       ELSE "Timestamp",
                                       Drop(rest, close + 1))
                    ELSE other = Err("SymbolsAfterClosedString")

\* C27's case: a quoted value holding a comma and an escaped quote was found
\* whole, and a field follows.
C27_FoundQuotedValue ==
    /\ last = "FieldParser" /\ other.ok
    /\ other.val.pair.value = <<DQ, "s", SP, COMMA, BS, DQ, DQ>>
    /\ other.val.tail.kind = "Field"

\* The order of the phases of the tokenizer; the timestamp is taken when the
\* field loop ends.
Rank(p) ==
    CASE p = "ParsingMeasurement" -> 1
      [] p = "ParsingTags" -> 2
      [] p = "ParsingFields" -> 3
      [] p \in {"Done", "Error"} -> 4

\* C28: the tokenizer only moves forward through measurement, tags, fields,
\* timestamp and the end: tag pairs are read only in the tag phase and before
\* any field pair, field pairs only in the field phase, the timestamp only with
\* the last step, nothing after the end, and a tokenization that succeeds has
\* read at least one field pair.
C28_PhaseOrder ==
    [][/\ phase \notin {"Done", "Error"}
       /\ Rank(phase') >= Rank(phase)
       /\ parts'.measurement # parts.measurement => phase = "ParsingMeasurement"
       /\ parts'.tags # parts.tags =>
              phase = "ParsingTags" /\ parts.fields = <<>> /\ parts'.fields = <<>>
       /\ parts'.fields # parts.fields => phase = "ParsingFields"
       /\ parts'.timestamp # parts.timestamp => phase = "ParsingFields" /\ phase' = "Done"
       /\ phase' = "Done" =>
              /\ line'.ok /\ Len(line'.val.fields) >= 1
              /\ line'.val.tags = parts'.tags /\ line'.val.fields = parts'.fields]_vars

\* C28's case: a line with two tags, three fields and a timestamp was tokenized.
C28_TokenizedWholeLine ==
    /\ phase = "Done" /\ line.ok
    /\ Len(line.val.tags) = 2 /\ Len(line.val.fields) = 3 /\ line.val.timestamp.some

\* C30: every turn of the tag loop and of the field loop that goes on leaves a
\* strictly shorter tail, the number of scanner calls is bounded by the length
\* of the line, and process returns a RawLine or an error.
C30_Terminates ==
    /\ [][phase' \in {"ParsingTags", "ParsingFields"} => Len(out'.v) < Len(out.v)]_vars
    /\ [](nops <= Len(input) + 1)
    /\ <>(phase \in {"Done", "Error"})

\* C30's case: process returned after two turns of the tag loop and three of the
\* field loop.
C30_ReturnedAfterLoops ==
    /\ phase = "Done" /\ nops = 6
    /\ Len(parts.tags) = 2 /\ Len(parts.fields) = 3

\* C31: the key slice KeyParser returns for a tag pair or a field pair holds no
\* comma, space or '=' that the escape engine of KeyName sees as bare and does
\* not end in a pending backslash: the engine decodes it, and KeyName::from_str
\* of the slice can fail only with the name restriction.
C31_KeyScannerAgreesWithDecoder ==
    (last \in {"TagParser", "FieldParser"} /\ KeyParser_process(prev.v).ok) =>
        LET key == KeyParser_process(prev.v).val[1] IN
        /\ decode(KeyName_SPECIAL_CHARACTERS, KeyName_ESCAPE_CHARACTER, "Allow", key).ok
        /\ KeyName_from_str(key).ok \/ KeyName_from_str(key) = Err("NameRestriction")
        /\ other.ok => other.val.pair.key = key

\* C31's case: a key that is a doubled backslash was tokenized up to the '='
\* after it, and the decoder takes it as one backslash.
C31_TokenizedEscapedKey ==
    /\ last = "TagParser"
    /\ KeyParser_process(prev.v) = Ok(<<<<BS, BS>>, <<"a">>>>)
    /\ KeyName_from_str(<<BS, BS>>) = Ok(<<BS>>)

\* The escape engine with the specials comma and space, run over the characters
\* before place k of a text, is in its ready state (no error, no pending
\* backslash) when it comes to the character at k.
EngineReadyAt(text, k) ==
    LET r == try_for_each(LinearParser_new({COMMA, SP}, BS, "Allow"), Take(text, k - 1))
    IN r.err = "" /\ r.p.state = "SeenCharacter"

\* The first comma or space of a text at which that engine is ready, 0 if none.
EngineStop(text) ==
    LET stops == {k \in 1..Len(text) : text[k] \in {COMMA, SP} /\ EngineReadyAt(text, k)}
    IN IF stops = {} THEN 0 ELSE CHOOSE k \in stops : \A j \in stops : k <= j

\* C32: MeasurementParser and TagValueParser end their slice at a comma or space
\* exactly when the escape engine, run over the same characters, is ready at
\* that character, so the slice they return is never refused by its decoder
\* with SpecialCharacterNotEscaped for a comma or a space.
C32_ScannersAgreeWithEngine ==
    /\ last = "MeasurementParser" =>
          LET stop == EngineStop(prev.v) IN
          IF stop > 1
          THEN /\ other.ok /\ other.val.measurement = Take(prev.v, stop - 1)
               /\ MeasurementName_from_str(other.val.measurement).err
                      # "SpecialCharacterNotEscaped"
          ELSE ~other.ok
    /\ (last = "TagParser" /\ KeyParser_process(prev.v).ok) =>
          LET rest == KeyParser_process(prev.v).val[2]
              stop == EngineStop(rest)
          IN IF stop > 1
             THEN /\ other.ok /\ other.val.pair.value = Take(rest, stop - 1)
                  /\ decode({COMMA, SP}, BS, "Allow", other.val.pair.value).ok
             ELSE ~other.ok

\* C33: every slice StringValueParser returns as a field value is accepted by
\* QuotedString::from_str, and every quoted text QuotedString::from_str accepts
\* is returned by StringValueParser as the whole value when a comma, a space or
\* the end of the text follows it.
C33_QuotedScannerAgreesWithDecoder ==
    (/\ last = "FieldParser" /\ KeyFound(prev.v)
     /\ ValueTail(prev.v) # <<>> /\ Head(ValueTail(prev.v)) = DQ) =>
        LET rest == ValueTail(prev.v) IN
        /\ other.ok => QuotedString_from_str(other.val.pair.value).ok
        /\ \A k \in 2..Len(rest) :
              (/\ QuotedString_from_str(Take(rest, k)).ok
               /\ k = Len(rest) \/ rest[k + 1] \in {COMMA, SP}) =>
                  other.ok /\ other.val.pair.value = Take(rest, k)

\* C34: when InfluxLine::from_str succeeds, the raw slices of the tokenizer and
\* the single delimiters between them make up the whole input, but for one
\* newline at its very end: no accepted input has characters that belong to no
\* slice, and an input with characters after a newline is rejected.
C34_NoInputDropped ==
    (phase = "Done" /\ InfluxLine_from_str(input).ok) =>
        \/ Assemble(parts) = input
        \/ Assemble(parts) \o <<NL>> = input

\* C35: a delimiter with nothing after it is rejected.  When the field scanner
\* reports another field after a comma and that tail is empty, or the tag
\* scanner reports another tag and that tail is empty, InfluxLine::from_str of
\* the line fails with NoValue; when the field scanner reports a timestamp
\* after a space and that tail is empty, the tokenizer returns the empty
\* timestamp slice and InfluxLine::from_str fails.
C35_DanglingDelimiterRejected ==
    /\ (/\ last \in {"TagParser", "FieldParser"} /\ other.ok
        /\ other.val.tail.kind \in {"Tag", "Field"} /\ other.val.tail.rest = <<>>) =>
           /\ InfluxLine_from_str(input) = Err("NoValue")
           /\ phase \in {"Done", "Error"} => line = Err("NoValue")
    /\ (/\ last = "FieldParser" /\ other.ok
        /\ other.val.tail.kind = "Timestamp" /\ other.val.tail.rest = <<>>) =>
           /\ phase = "Done" /\ line.ok /\ line.val.timestamp = Some(<<>>)
           /\ ~InfluxLine_from_str(input).ok

\* C35's case: the line 'm a=a,' was read up to the comma and refused for what
\* is missing after it.
C35_RefusedDanglingComma ==
    /\ input = <<"m", SP, "a", EQ, "a", COMMA>>
    /\ phase = "Error" /\ nops = 3 /\ line = Err("NoValue")

\* The text handed to a pair scanner has an empty key (it starts with '=') or
\* an empty value (after the '=' that ends the key comes the end of the text or
\* one of the characters `ends`).
EmptyComponent(text, ends) ==
    \/ text # <<>> /\ Head(text) = EQ
    \/ /\ KeyFound(text)
       /\ ValueTail(text) = <<>> \/ Head(ValueTail(text)) \in ends

\* C36: InfluxLine::from_str fails for every line in which a tag key, a tag
\* value, a field key or a field value is empty, and for every line whose field
\* section holds no '='.
C36_EmptyComponentRejected ==
    /\ (last = "TagParser" /\ EmptyComponent(prev.v, {COMMA, SP})) =>
           ~InfluxLine_from_str(input).ok
    /\ (last = "FieldParser" /\ EmptyComponent(prev.v, {COMMA, SP, NL})) =>
           ~InfluxLine_from_str(input).ok
    /\ (last = "FieldParser" /\ \A k \in 1..Len(prev.v) : prev.v[k] # EQ) =>
           ~other.ok /\ ~line.ok /\ ~InfluxLine_from_str(input).ok

\* C36's case: the line 'm =a' was tokenized with an empty field key and is
\* refused by the decoder of the key.
C36_RefusedEmptyFieldKey ==
    /\ input = <<"m", SP, EQ, "a">>
    /\ phase = "Done" /\ line.ok /\ line.val.fields[1].key = <<>>
    /\ InfluxLine_from_str(input) = Err("NameRestriction")

\* A text of ordinary characters and '=' in which every backslash stands right
\* before a '='.
EqualsOnly(text) ==
    /\ \A k \in 1..Len(text) : text[k] \in {"a", US, EQ, BS}
    /\ \A k \in 1..Len(text) : text[k] = BS => k < Len(text) /\ text[k + 1] = EQ

WithoutBackslash(text) == SelectSeq(text, LAMBDA c : c # BS)

OnlyKeyChanged(before, after, a) ==
    /\ Len(after) \in {Len(before), Len(before) + 1}
    /\ \A k \in 1..Len(before) :
          /\ after[k].key = before[k].key
          /\ before[k].key # a.key => after[k] = before[k]
    /\ Len(after) = Len(before) + 1 => after[Len(after)] = a
    /\ \E k \in 1..Len(after) : after[k] = a

\* C38: a builder call that succeeds changes only its own part of the line:
\* with_tag and try_with_tag the tags, with_field and try_with_field the
\* fields, with_timestamp and try_with_timestamp the timestamp, which is set
\* whatever it was before; none changes the measurement, and an upsert changes
\* no pair with another key.
C38_BuilderFrame ==
    (phase = "build" /\ nops > 0 /\ line.ok) =>
        /\ line.val.measurement = prev.val.measurement
        /\ last = "tag" =>
              /\ line.val.fields = prev.val.fields
              /\ line.val.timestamp = prev.val.timestamp
              /\ OnlyKeyChanged(prev.val.tags, line.val.tags, tagLog[Len(tagLog)])
        /\ last = "field" =>
              /\ line.val.tags = prev.val.tags
              /\ line.val.timestamp = prev.val.timestamp
              /\ OnlyKeyChanged(prev.val.fields, line.val.fields, fieldLog[Len(fieldLog)])
        /\ last = "timestamp" =>
              /\ line.val.tags = prev.val.tags
              /\ line.val.fields = prev.val.fields
              /\ line.val.timestamp \in {Some(t) : t \in Timestamps}

\* C38's case: a line with two tags and a timestamp had the value of its first
\* tag replaced.
C38_ReplacedTagValue ==
    /\ phase = "build" /\ nops > 0 /\ line.ok /\ last = "tag"
    /\ Len(prev.val.tags) = 2 /\ prev.val.tags[1].key = <<"k">>
    /\ prev.val.timestamp.some
    /\ Len(line.val.tags) = 2 /\ line.val.tags[1] = Pair(<<"k">>, <<"w">>)
    /\ line.val.tags[1] # prev.val.tags[1]

====
